---- MODULE Spec2Model ----
(***************************************************************************)
(* A model of ts, the timesheet CLI (src/src/main.rs): the log line        *)
(* grammar, the LIFO report engine, log rotation, the mutating commands    *)
(* and the reminder daemon.                                                *)
(*                                                                         *)
(* Text is modelled as a sequence of one-character strings, so that        *)
(* formatting and parsing are computed and not assumed.  A file is a       *)
(* record [exists, lines]: the sequence of its newline-terminated lines,   *)
(* each line kept as its text together with what parse_line returns for    *)
(* that text, so that a line is parsed once, when it is written.           *)
(* f64 values are kept exact: seconds as integers, a percentage as the     *)
(* ratio [num, den].                                                       *)
(***************************************************************************)
EXTENDS Integers, Sequences, FiniteSets, TLC

VARIABLES
    tz,         \* offset of the local time zone, seconds east of UTC
    now,        \* the clock: Local::now().timestamp()
    log,        \* the active log $HOME/Documents/timesheet.log
    arch,       \* the rotated logs timesheet.YYMMDD: stamp -> lines
    pidfile,    \* ts-reminder.pid
    procs,      \* the reminder daemon processes: pid -> position
    cmd,        \* the last command that ran, with its arguments
    ret,        \* its result: "Ok" or the error
    nsteps,     \* the number of commands and daemon steps that ran so far
    out,        \* what cmd printed (the list report)
    p_line,     \* parse_line: the input line
    p_entry,    \* parse_line: the entry that was serialized into p_line
    p_res,      \* parse_line: the result
    r_lines,    \* process_log_for_report: lines
    r_vstop,    \* process_log_for_report: virtual_stop
    r_i,        \* process_log_for_report: index of the next line
    stack,      \* process_log_for_report: stack
    act_sec,    \* process_log_for_report: act_sec
    dow_sec,    \* process_log_for_report: dow_sec
    r_pc,       \* process_log_for_report: position
    r_res,      \* process_log_for_report: the returned triple
    i_text,     \* parse_interval_duration: the duration string
    i_res,      \* parse_interval_duration: the result
    ifile,      \* ts-reminder-interval: its content, or None when absent
    k_pc,       \* kill_reminder_daemon_if_running: position
    k_data,     \* kill_reminder_daemon_if_running: the text of ts-reminder.pid
    k_self,     \* kill_reminder_daemon_if_running: process::id()
    k_pid,      \* kill_reminder_daemon_if_running: pid
    k_alive,    \* the pids of the processes that exist
    k_daemons,  \* the pids that are or were reminder daemons
    k_sent,     \* the signals sent so far, in order
    d_in,       \* show_reminder_prompt: what each dialog returns
    d_res       \* show_reminder_prompt: the ReminderResult

sysvars == <<tz, now, log, arch, pidfile, procs, cmd, ret, nsteps, out>>
parsevars == <<p_line, p_entry, p_res>>
reportvars == <<r_lines, r_vstop, r_i, stack, act_sec, dow_sec, r_pc, r_res>>
intervalvars == <<i_text, i_res, ifile>>
killvars == <<k_pc, k_data, k_self, k_pid, k_alive, k_daemons, k_sent>>
promptvars == <<d_in, d_res>>
vars == <<tz, now, log, arch, pidfile, procs, cmd, ret, nsteps, out,
          p_line, p_entry, p_res,
          r_lines, r_vstop, r_i, stack, act_sec, dow_sec, r_pc, r_res,
          i_text, i_res, ifile,
          k_pc, k_data, k_self, k_pid, k_alive, k_daemons, k_sent,
          d_in, d_res>>

(***************************************************************************)
(* Text                                                                    *)
(***************************************************************************)

\* Option::None, for every Option the program uses.
None == [kind |-> "None"]

Some(v) == [kind |-> "Some", val |-> v]

DigitChars == <<"0", "1", "2", "3", "4", "5", "6", "7", "8", "9">>

is_ascii_digit(c) == \E i \in 1..10 : DigitChars[i] = c

DigitVal(c) == (CHOOSE i \in 1..10 : DigitChars[i] = c) - 1

\* char::is_whitespace, on the characters of the model.
is_whitespace(c) == c \in {" ", "\t"}

RECURSIVE trim_start(_)
trim_start(s) ==
    IF s # <<>> /\ is_whitespace(Head(s)) THEN trim_start(Tail(s)) ELSE s

RECURSIVE trim_end(_)
trim_end(s) ==
    IF s # <<>> /\ is_whitespace(s[Len(s)])
    THEN trim_end(SubSeq(s, 1, Len(s) - 1))
    ELSE s

\* str::trim
trim(s) == trim_end(trim_start(s))

starts_with(s, p) == Len(s) >= Len(p) /\ SubSeq(s, 1, Len(p)) = p

\* str::strip_prefix
strip_prefix(s, p) ==
    IF starts_with(s, p) THEN Some(SubSeq(s, Len(p) + 1, Len(s))) ELSE None

\* The position of the first occurrence of c in s, 0 when there is none.
find_char(s, c) ==
    IF \E i \in 1..Len(s) : s[i] = c
    THEN CHOOSE i \in 1..Len(s) : s[i] = c /\ \A j \in 1..(i - 1) : s[j] # c
    ELSE 0

\* A variant of splitn2 that splits at the last c.
split_at_last(s, c) ==
    IF \E i \in 1..Len(s) : s[i] = c
    THEN LET i == CHOOSE k \in 1..Len(s) : s[k] = c /\ \A j \in (k + 1)..Len(s) : s[j] # c
         IN  <<SubSeq(s, 1, i - 1), SubSeq(s, i + 1, Len(s))>>
    ELSE <<s>>

\* str::splitn(2, c): at most two parts, split at the first c only.
splitn2(s, c) ==
    LET i == find_char(s, c)
    IN  IF i = 0 THEN <<s>>
        ELSE <<SubSeq(s, 1, i - 1), SubSeq(s, i + 1, Len(s))>>

RECURSIVE digits_value(_)
digits_value(s) ==
    IF s = <<>> THEN 0
    ELSE 10 * digits_value(SubSeq(s, 1, Len(s) - 1)) + DigitVal(s[Len(s)])

\* str::parse::<i64>: an optional sign, then one or more digits and nothing
\* else.  (The texts of the model are far shorter than 19 digits, so the
\* overflow error of parse does not arise.)
parse_i64(s) ==
    LET signed == s # <<>> /\ Head(s) \in {"+", "-"}
        ds == IF signed THEN Tail(s) ELSE s
    IN  IF ds = <<>> \/ \E i \in 1..Len(ds) : ~is_ascii_digit(ds[i])
        THEN None
        ELSE Some(IF signed /\ Head(s) = "-"
                  THEN 0 - digits_value(ds) ELSE digits_value(ds))

RECURSIVE nat_to_string(_)
nat_to_string(n) ==
    IF n < 10 THEN <<DigitChars[n + 1]>>
    ELSE nat_to_string(n \div 10) \o <<DigitChars[(n % 10) + 1]>>

\* i64's Display, as format!("{}", n) uses it.
to_string(n) == IF n < 0 THEN <<"-">> \o nat_to_string(0 - n) ELSE nat_to_string(n)

(***************************************************************************)
(* Reminder interval                                                       *)
(***************************************************************************)

\* A unit that counts every number as seconds.
unit_secs_flat(u) == 1

\* The seconds of one unit: the match on unit, whose m, M and default arms
\* count minutes.
unit_secs(u) ==
    IF u \in {"h", "H"} THEN 3600 ELSE IF u \in {"s", "S"} THEN 1 ELSE 60

\* while i < bytes.len() && !bytes[i].is_ascii_digit() { i += 1 }
\* (positions count from 1 here)
RECURSIVE skip_non_digits(_, _)
skip_non_digits(s, i) ==
    IF i <= Len(s) /\ ~is_ascii_digit(s[i]) THEN skip_non_digits(s, i + 1) ELSE i

\* while i < bytes.len() && bytes[i].is_ascii_digit() { i += 1 }
RECURSIVE skip_digits(_, _)
skip_digits(s, i) ==
    IF i <= Len(s) /\ is_ascii_digit(s[i]) THEN skip_digits(s, i + 1) ELSE i

RECURSIVE interval_scan(_, _, _)
\* One number s[start..i) and the unit after it, if there is one.  (The
\* texts of the model are far shorter than 20 digits, so the error of
\* parse::<u64> and the overflow of total_secs do not arise.)
interval_token(s, start, i, total) ==
    IF i <= Len(s) /\ s[i] \in {"h", "H", "m", "M", "s", "S"}
    THEN interval_scan(s, i + 1,
                       total + digits_value(SubSeq(s, start, i - 1)) * unit_secs(s[i]))
    ELSE interval_scan(s, i, total + digits_value(SubSeq(s, start, i - 1)) * unit_secs("m"))

\* The outer loop from position i on: start is where the next number begins.
interval_from(s, start, total) ==
    IF start > Len(s) THEN total
    ELSE interval_token(s, start, skip_digits(s, start), total)

interval_scan(s, i, total) == interval_from(s, skip_non_digits(s, i), total)

interval_total(total_secs) ==
    IF total_secs = 0 THEN [kind |-> "Err", err |-> "interval must be positive"]
    ELSE [kind |-> "Ok", val |-> total_secs]

parse_interval_duration(text) ==
    IF trim(text) = <<>> THEN [kind |-> "Err", err |-> "interval cannot be empty"]
    ELSE interval_total(interval_scan(trim(text), 1, 0))

(***************************************************************************)
(* Log lines                                                               *)
(***************************************************************************)

\* enum LogLine
Start(e, a) == [kind |-> "Start", epoch |-> e, activity |-> a]

Stop(e) == [kind |-> "Stop", epoch |-> e]

START_PREFIX == <<"S", "T", "A", "R", "T", "|">>

STOP_PREFIX == <<"S", "T", "O", "P", "|">>

\* A variant of the START arm that demands the separator after the epoch.
parse_start_rest_strict(rest) ==
    LET parts == splitn2(rest, "|")
        epoch == parse_i64(trim(parts[1]))
    IN  IF epoch = None \/ Len(parts) < 2 THEN None ELSE Some(Start(epoch.val, parts[2]))

\* The START arm of parse_line: rest is the text after "START|".
parse_start_rest(rest) ==
    LET parts == splitn2(rest, "|")
        epoch == parse_i64(trim(parts[1]))
        activity == IF Len(parts) >= 2 THEN parts[2] ELSE <<>>
    IN  IF epoch = None THEN None ELSE Some(Start(epoch.val, activity))

\* The STOP arm of parse_line: rest is the text after "STOP|".
parse_stop_rest(rest) ==
    LET epoch == parse_i64(trim(rest))
    IN  IF epoch = None THEN None ELSE Some(Stop(epoch.val))

parse_line(line) ==
    LET s == trim(line)
    IN  IF strip_prefix(s, START_PREFIX) # None
        THEN parse_start_rest(strip_prefix(s, START_PREFIX).val)
        ELSE IF strip_prefix(s, STOP_PREFIX) # None
        THEN parse_stop_rest(strip_prefix(s, STOP_PREFIX).val)
        ELSE None

\* format!("START|{}|{}\n", epoch, activity), without the line feed.
format_start(epoch, activity) ==
    START_PREFIX \o to_string(epoch) \o <<"|">> \o activity

\* format!("STOP|{}\n", epoch), without the line feed.
format_stop(epoch) == STOP_PREFIX \o to_string(epoch)

serialize(entry) ==
    IF entry.kind = "Start" THEN format_start(entry.epoch, entry.activity)
    ELSE format_stop(entry.epoch)

(***************************************************************************)
(* Local time (chrono::Local with a fixed offset tz)                       *)
(***************************************************************************)

DAY_SECS == 86400

\* Rust's integer division truncates toward zero; \div rounds down.
trunc_div(a, b) == IF a >= 0 THEN a \div b ELSE 0 - ((0 - a) \div b)

\* DateTime<Local>::date_naive, as the number of days since 1970-01-01.
date_naive(epoch, z) == (epoch + z) \div DAY_SECS

\* Datelike::weekday().num_days_from_sunday(): 1970-01-01 is a Thursday.
num_days_from_sunday(day) == (day + 4) % 7

\* The civil date <<year, month, day>> of a day number (proleptic
\* Gregorian), computed from the era of 400 years, the day of the era doe,
\* the year of the era yoe, the day of the year doy counted from 1 March
\* and the month mp counted from March.
civil_of_m(y, m, d) == <<y + (IF m <= 2 THEN 1 ELSE 0), m, d>>

civil_of_mp(era, yoe, doy, mp) ==
    civil_of_m(yoe + era * 400, IF mp < 10 THEN mp + 3 ELSE mp - 9,
               doy - (153 * mp + 2) \div 5 + 1)

civil_of_yoe(era, doe, yoe) ==
    civil_of_mp(era, yoe, doe - (365 * yoe + yoe \div 4 - yoe \div 100),
                (5 * (doe - (365 * yoe + yoe \div 4 - yoe \div 100)) + 2) \div 153)

civil_of_doe(era, doe) ==
    civil_of_yoe(era, doe,
                 (doe - doe \div 1460 + doe \div 36524 - doe \div 146096) \div 365)

civil_from_days(day) ==
    civil_of_doe((day + 719468) \div 146097, (day + 719468) % 146097)

pad2(n) == <<DigitChars[(n \div 10) + 1], DigitChars[(n % 10) + 1]>>

\* "%y%m%d" of the civil date c.
yymmdd(c) == pad2(c[1] % 100) \o pad2(c[2]) \o pad2(c[3])

\* dt.format("%y%m%d"): two-digit year, month, day of the local date.
format_yymmdd(epoch, z) == yymmdd(civil_from_days(date_naive(epoch, z)))

\* dt.format("%Y-%m-%d"): two such texts are equal exactly when the civil
\* dates are.
format_ymd(epoch, z) == civil_from_days(date_naive(epoch, z))

week_start_epoch(n, z) ==
    LET today == date_naive(n, z)
        dow == num_days_from_sunday(today)
        today_start == today * DAY_SECS - z
    IN  today_start - dow * DAY_SECS

(***************************************************************************)
(* Files                                                                   *)
(***************************************************************************)

\* A line of a file: its text, and parse_line of its text.
Line(text) == [text |-> text, entry |-> parse_line(text)]

NoFile == [exists |-> FALSE, lines |-> <<>>]

File(ls) == [exists |-> TRUE, lines |-> ls]

\* OpenOptions::new().create(true).append(true) and write_all of one line.
append_line(f, text) == File(f.lines \o <<Line(text)>>)

\* content.lines().rev().find(|l| !l.trim().is_empty())
last_nonblank(ls) ==
    IF \E i \in 1..Len(ls) : trim(ls[i].text) # <<>>
    THEN Some(ls[CHOOSE i \in 1..Len(ls) :
                    trim(ls[i].text) # <<>>
                    /\ \A j \in (i + 1)..Len(ls) : trim(ls[j].text) = <<>>])
    ELSE None

\* last.map(|l| l.starts_with(p)).unwrap_or(FALSE)
last_starts_with(ls, p) ==
    \E last \in {last_nonblank(ls)} : last # None /\ starts_with(last.val.text, p)

\* The match of last_line_epoch on parse_line of the line found.
epoch_of_line(last) ==
    IF last = None THEN None
    ELSE IF last.val.entry = None THEN None
    ELSE Some(last.val.entry.val.epoch)

last_line_epoch(f) ==
    IF ~f.exists THEN None ELSE epoch_of_line(last_nonblank(f.lines))

\* The loop of max_epoch_in_log over the first k lines, from max = 0.
RECURSIVE max_epoch_upto(_, _)
max_epoch_upto(ls, k) ==
    IF k = 0 THEN 0
    ELSE LET m == max_epoch_upto(ls, k - 1)
             e == ls[k].entry
         IN  IF e # None /\ e.val.epoch > m THEN e.val.epoch ELSE m

max_epoch_in_log(f) ==
    IF ~f.exists THEN None
    ELSE LET max == max_epoch_upto(f.lines, Len(f.lines))
         IN  IF max = 0 THEN None ELSE Some(max)

\* lines[..lines.len() - 1].join("\n") + "\n", as the lines of that text:
\* joining no line at all still leaves the "\n", one empty line.
without_last(ls) ==
    IF ls = <<>> THEN <<>>
    ELSE IF Len(ls) = 1 THEN <<Line(<<>>)>>
    ELSE SubSeq(ls, 1, Len(ls) - 1)

ERR_NO_DATA == "ts rotate: no timesheet data found."

ERR_NO_VALID == "ts rotate: no valid entries in timesheet."

\* The files and processes a command acts on.
World == [log |-> log, arch |-> arch, pidfile |-> pidfile, procs |-> procs]

\* What a function returns: the world it leaves, its Result, and the number
\* of rotations it completed.
Ok(w, n) == [w |-> w, ret |-> "Ok", nrot |-> n]

Err(w, e) == [w |-> w, ret |-> e, nrot |-> 0]

\* A variant of move_to that renames the log over the target even when the
\* target exists.
move_over(w, f, dest) ==
    Ok([w EXCEPT !.arch = [d \in DOMAIN w.arch \cup {dest} |->
                            IF d = dest THEN f.lines ELSE w.arch[d]],
                 !.log = NoFile], 1)

\* Lines 303-315 of do_rotate: the content f of the log goes to the end of
\* the rotated log dest, or becomes it, and the log is gone.
move_to(w, f, dest) ==
    Ok([w EXCEPT !.arch = [d \in DOMAIN w.arch \cup {dest} |->
                            IF d = dest
                            THEN (IF dest \in DOMAIN w.arch THEN w.arch[dest] ELSE <<>>)
                                 \o f.lines
                            ELSE w.arch[d]],
                 !.log = NoFile], 1)

\* Lines 297-302 of do_rotate: the stamp of the target, from max_epoch.
rotate_stamped(w, f, max_epoch, z) ==
    IF max_epoch = None THEN Err([w EXCEPT !.log = f], ERR_NO_VALID)
    ELSE move_to(w, f, format_yymmdd(max_epoch.val, z))

\* The second half of do_rotate (lines 297-317): f is the log after the STOP
\* was added.
rotate_to_dest(w, f, z) == rotate_stamped(w, f, max_epoch_in_log(f), z)

\* A variant of do_rotate that has nothing to do when the log is missing.
do_rotate_silent(w, n, z) ==
    IF ~w.log.exists THEN Ok(w, 0)
    ELSE rotate_to_dest(w, IF last_starts_with(w.log.lines, START_PREFIX)
                           THEN append_line(w.log, format_stop(n)) ELSE w.log, z)

\* A variant of do_rotate that moves the log as it is.
do_rotate_unstopped(w, n, z) ==
    IF ~w.log.exists THEN Err(w, ERR_NO_DATA) ELSE rotate_to_dest(w, w.log, z)

do_rotate(w, n, z) ==
    IF ~w.log.exists THEN Err(w, ERR_NO_DATA)
    ELSE rotate_to_dest(w, IF last_starts_with(w.log.lines, START_PREFIX)
                           THEN append_line(w.log, format_stop(n)) ELSE w.log, z)

\* Lines 324-333: last_epoch is what last_line_epoch returned.
rotate_if_before(w, last_epoch, n, z) ==
    IF last_epoch = None THEN Ok(w, 0)
    ELSE IF last_epoch.val < week_start_epoch(n, z) THEN do_rotate(w, n, z)
    ELSE Ok(w, 0)

maybe_rotate_if_previous_week(w, n, z) ==
    IF ~w.log.exists THEN Ok(w, 0)
    ELSE rotate_if_before(w, last_line_epoch(w.log), n, z)

(***************************************************************************)
(* The report engine                                                       *)
(***************************************************************************)

ZeroDow == [d \in 0..6 |-> 0]

\* HashMap::new()
EmptyMap == [k \in {} |-> 0]

\* The working state of process_log_for_report: stack, act_sec, dow_sec.
ReportState(st, as, ds) == [stack |-> st, act_sec |-> as, dow_sec |-> ds]

\* let days = (start_epoch / 86400) as i32; (days + 4).rem_euclid(7)
dow_of(start_epoch) == (trunc_div(start_epoch, DAY_SECS) + 4) % 7

\* *act_sec.entry(start_act).or_insert(0) += dur
add_act(as, a, dur) ==
    [k \in DOMAIN as \cup {a} |->
        IF k = a THEN (IF a \in DOMAIN as THEN as[a] ELSE 0) + dur ELSE as[k]]

\* The block that closes the session popped from the stack at end (lines
\* 549-555, 561-567 and 574-580): s is the state after the pop.
close_session(s, top, end) ==
    LET dur == end - top[1]
    IN  IF dur > 0
        THEN [s EXCEPT !.act_sec = add_act(s.act_sec, top[2], dur),
                       !.dow_sec = [s.dow_sec EXCEPT ![dow_of(top[1])] = @ + dur]]
        ELSE s

\* stack.pop() followed by the closing block, when the stack is not empty.
pop_and_close(s, end) ==
    IF s.stack = <<>> THEN s
    ELSE close_session([s EXCEPT !.stack = SubSeq(s.stack, 1, Len(s.stack) - 1)],
                       s.stack[Len(s.stack)], end)

\* A variant of the Start arm that forgets stack.push.
on_start_no_push(s, e, a) == pop_and_close(s, e)

\* A variant of the Stop arm that ignores the entry.
on_stop_ignored(s, e) == s

\* A variant of the Start arm that pushes without popping the open session.
on_start_push_only(s, e, a) == [s EXCEPT !.stack = Append(s.stack, <<e, a>>)]

\* The arm LogLine::Start(e, a) of the loop.
on_start(s, e, a) ==
    LET s1 == pop_and_close(s, e)
    IN  [s1 EXCEPT !.stack = Append(s1.stack, <<e, a>>)]

\* The arm LogLine::Stop(e) of the loop.
on_stop(s, e) == pop_and_close(s, e)

\* One iteration of the loop, on the element x = (line number, LogLine).
on_line(s, x) ==
    IF x[2].kind = "Start" THEN on_start(s, x[2].epoch, x[2].activity)
    ELSE on_stop(s, x[2].epoch)

\* A variant without the block at lines 572-582.
on_virtual_stop_skipped(s, virtual_stop) == s

\* if let Some(vstop) = virtual_stop { ... }
on_virtual_stop(s, virtual_stop) ==
    IF virtual_stop = None THEN s ELSE pop_and_close(s, virtual_stop.val)

RECURSIVE sum_values(_, _)
sum_values(f, keys) ==
    IF keys = {} THEN 0
    ELSE LET k == CHOOSE x \in keys : TRUE
         IN  f[k] + sum_values(f, keys \ {k})

\* The element (a, pct, hr) of by_act for activity a: pct = 100 * s / total
\* and hr = s / 3600, kept as exact ratios.
act_row(a, sec, total) ==
    [activity |-> a,
     pct |-> [num |-> 100 * sec, den |-> total],
     hr |-> [num |-> sec, den |-> 3600]]

\* b.1.partial_cmp(&a.1) is Less: b's percentage is smaller than a's, both
\* over the same total.
pct_less(b, a) == b.pct.num < a.pct.num

\* Vec::sort_by is stable: x, which comes after the rows of sorted in the
\* input, goes behind every row that does not compare greater.
RECURSIVE insert_sorted(_, _)
insert_sorted(sorted, x) ==
    IF sorted = <<>> THEN <<x>>
    ELSE IF pct_less(sorted[Len(sorted)], x)
    THEN Append(insert_sorted(SubSeq(sorted, 1, Len(sorted) - 1), x), sorted[Len(sorted)])
    ELSE Append(sorted, x)

RECURSIVE sort_by_pct_desc(_)
sort_by_pct_desc(rows) ==
    IF rows = <<>> THEN <<>>
    ELSE insert_sorted(sort_by_pct_desc(SubSeq(rows, 1, Len(rows) - 1)), rows[Len(rows)])

\* The orders in which act_sec.into_iter() may yield the keys: a HashMap
\* iterates in an unspecified order.
IterOrders(keys) ==
    {it \in [1..Cardinality(keys) -> keys] : \A i, j \in DOMAIN it : it[i] = it[j] => i = j}

\* Lines 583-596: the returned triple, when the map is iterated in order it.
report_result(s, it) ==
    LET total == sum_values(s.act_sec, DOMAIN s.act_sec)
    IN  [by_act |-> sort_by_pct_desc([i \in DOMAIN it |-> act_row(it[i], s.act_sec[it[i]], total)]),
         dow_hr |-> [d \in 0..6 |-> [num |-> s.dow_sec[d], den |-> 3600]],
         work_in_progress |-> s.stack # <<>>]

RECURSIVE report_loop(_, _)
report_loop(lines, k) ==
    IF k = 0 THEN ReportState(<<>>, EmptyMap, ZeroDow)
    ELSE on_line(report_loop(lines, k - 1), lines[k])

\* The working state when the function reaches line 583.
report_final(lines, virtual_stop) ==
    on_virtual_stop(report_loop(lines, Len(lines)), virtual_stop)

\* The triples process_log_for_report may return.
process_log_for_report(lines, virtual_stop) ==
    LET s == report_final(lines, virtual_stop)
    IN  {report_result(s, it) : it \in IterOrders(DOMAIN s.act_sec)}

(***************************************************************************)
(* The reminder daemon's processes and PID file                            *)
(***************************************************************************)

\* The daemons the model lets be spawned have the pids 1..MaxPids.
MaxPids == 2

\* process::id() of a command run from the shell: never a daemon's pid.
CLI_PID == 0

Alive == {"spawned", "sleeping", "prompting"}

\* kill(pid, 0) == 0
is_pid_running(w, pid) == pid \in DOMAIN w.procs /\ w.procs[pid] \in Alive

\* signal_pid(pid, SIGTERM): the daemon installs no handler for SIGTERM, so
\* the signal ends the process at once.
signal_pid(w, pid) ==
    IF is_pid_running(w, pid) THEN [w EXCEPT !.procs[pid] = "killed"] ELSE w

remove_pidfile(w) == [w EXCEPT !.pidfile = None]

\* kill_reminder_daemon_if_running without the test "pid == process::id()".
kill_reminder_daemon_unguarded(w, self) ==
    IF w.pidfile = None THEN remove_pidfile(w)
    ELSE remove_pidfile(signal_pid(w, w.pidfile.val))

kill_reminder_daemon_if_running(w, self) ==
    IF w.pidfile = None THEN remove_pidfile(w)
    ELSE IF w.pidfile.val = self THEN remove_pidfile(w)
    ELSE remove_pidfile(signal_pid(w, w.pidfile.val))

\* start_reminder_daemon_if_needed without the test of the PID file.
start_reminder_daemon_unchecked(w, spawn_ok) ==
    IF ~spawn_ok THEN w
    ELSE LET child == Cardinality(DOMAIN w.procs) + 1
         IN  [w EXCEPT !.procs = [q \in DOMAIN w.procs \cup {child} |->
                                     IF q = child THEN "spawned" ELSE w.procs[q]]]

\* spawn_ok: whether Command::spawn succeeds; a failure is only logged.
start_reminder_daemon_if_needed(w, spawn_ok) ==
    IF w.pidfile # None /\ is_pid_running(w, w.pidfile.val) THEN w
    ELSE IF ~spawn_ok THEN w
    ELSE LET child == Cardinality(DOMAIN w.procs) + 1
         IN  [w EXCEPT !.procs = [q \in DOMAIN w.procs \cup {child} |->
                                     IF q = child THEN "spawned" ELSE w.procs[q]]]

(***************************************************************************)
(* The commands                                                            *)
(***************************************************************************)

\* "misc/unspecified"
DEFAULT_ACTIVITY ==
    <<"m", "i", "s", "c", "/", "u", "n", "s", "p", "e", "c", "i", "f", "i", "e", "d">>

\* A time argument is a text in one of the formats of parse_start_time, or a
\* text in none of them:
\*   [fmt |-> "datetime", naive |-> s]  "%Y-%m-%d %H:%M[:%S]", the local wall
\*                                      clock time s seconds after 1970-01-01 00:00
\*   [fmt |-> "time", secs |-> s]       "%H:%M", s seconds after midnight today
\*   [fmt |-> "bad"]                    e.g. "not-a-date"
parse_start_time(t, n, z) ==
    IF t.fmt = "datetime" THEN Some(t.naive - z)
    ELSE IF t.fmt = "time" THEN Some(date_naive(n, z) * DAY_SECS + t.secs - z)
    ELSE None

ERR_STOP_TIME == "ts stop: could not parse stop time"

ERR_START_TIME == "ts started: could not parse start time"

ERR_MISSING_START_TIME == "missing start_time"

\* args.join(" "), or the default when there is no argument.
activity_of(args) == IF args = None THEN DEFAULT_ACTIVITY ELSE args.val

\* A variant of append_start that writes the START line over the log.
append_start_over(r, activity, n) ==
    IF r.ret # "Ok" THEN r
    ELSE Ok([r.w EXCEPT !.log = File(<<Line(format_start(n, activity))>>)], r.nrot)

\* The "?" after maybe_rotate_if_previous_week and the append of the START
\* line: r is what the rotation check returned.
append_start(r, activity, n) ==
    IF r.ret # "Ok" THEN r
    ELSE Ok([r.w EXCEPT !.log = append_line(r.w.log, format_start(n, activity))], r.nrot)

\* start_reminder_daemon_if_needed at the end of a command that got as far
\* as r.
then_spawn(r, spawn_ok) ==
    IF r.ret # "Ok" THEN r
    ELSE Ok(start_reminder_daemon_if_needed(r.w, spawn_ok), r.nrot)

cmd_start(w, args, n, z, spawn_ok) ==
    then_spawn(append_start(maybe_rotate_if_previous_week(w, n, z), activity_of(args), n),
               spawn_ok)

\* append_start_entry that writes no line.
append_start_entry_skipped(w, activity, n, z) == maybe_rotate_if_previous_week(w, n, z)

append_start_entry(w, activity, n, z) ==
    append_start(maybe_rotate_if_previous_week(w, n, z), activity, n)

\* cmd_stop returned before any write, with the result ret.
Returned(w, ret_val, nrot) == [w |-> w, ret |-> ret_val, nrot |-> nrot, kill |-> FALSE]

\* cmd_stop wrote the log and goes on to kill_reminder_daemon_if_running.
Written(w, nrot) == [w |-> w, ret |-> "Ok", nrot |-> nrot, kill |-> TRUE]

\* Lines 510-519 of cmd_stop: the last entry is a STOP already.
stop_amend_write(w, nrot, t, n, z) ==
    IF t = None THEN Returned(w, "Ok", nrot)
    ELSE IF parse_start_time(t.val, n, z) = None
    THEN Returned(w, ERR_STOP_TIME, nrot)
    ELSE LET stop_epoch == parse_start_time(t.val, n, z).val
             new_content == without_last(w.log.lines) \o <<Line(format_stop(stop_epoch))>>
         IN  Written([w EXCEPT !.log = File(new_content)], nrot)

\* Lines 527-533 of cmd_stop: a STOP line is appended.
stop_append_write(w, nrot, t, n, z) ==
    IF t # None /\ parse_start_time(t.val, n, z) = None
    THEN Returned(w, ERR_STOP_TIME, nrot)
    ELSE LET stop_epoch == IF t = None THEN n ELSE parse_start_time(t.val, n, z).val
         IN  Written([w EXCEPT !.log = append_line(w.log, format_stop(stop_epoch))], nrot)

\* Lines 520-525 and 534-537: kill_reminder_daemon_if_running after the
\* write r, and the return.
stop_kill(r, self) ==
    IF r.kill THEN Ok(kill_reminder_daemon_if_running(r.w, self), r.nrot)
    ELSE [w |-> r.w, ret |-> r.ret, nrot |-> r.nrot]

\* Lines 510-525 of cmd_stop.
stop_amend(w, nrot, t, n, z, self) == stop_kill(stop_amend_write(w, nrot, t, n, z), self)

\* Lines 527-537 of cmd_stop.
stop_append(w, nrot, t, n, z, self) == stop_kill(stop_append_write(w, nrot, t, n, z), self)

\* cmd_stop up to its write: r is what the rotation check returned.
stop_record(r, t, n, z) ==
    IF r.ret # "Ok" THEN Returned(r.w, r.ret, r.nrot)
    ELSE IF last_starts_with(r.w.log.lines, STOP_PREFIX)
    THEN stop_amend_write(r.w, r.nrot, t, n, z)
    ELSE stop_append_write(r.w, r.nrot, t, n, z)

\* cmd_stop from line 507 on: r is what the rotation check returned.
stop_write(r, t, n, z, self) ==
    IF r.ret # "Ok" THEN r
    ELSE IF last_starts_with(r.w.log.lines, STOP_PREFIX)
    THEN stop_amend(r.w, r.nrot, t, n, z, self)
    ELSE stop_append(r.w, r.nrot, t, n, z, self)

cmd_stop(w, t, n, z, self) ==
    stop_write(maybe_rotate_if_previous_week(w, n, z), t, n, z, self)

\* rest.trim().parse().unwrap_or(0) / parts.next().and_then(..).unwrap_or(0)
epoch_or_0(text) == IF parse_i64(trim(text)) = None THEN 0 ELSE parse_i64(trim(text)).val

\* Lines 714-755 of cmd_started: where the new START line goes, given the
\* last non-blank line and today's date.
started_place(w, last, new_start, epoch, today, z) ==
    IF last # None /\ starts_with(last.val.text, START_PREFIX)
       /\ format_ymd(epoch_or_0(splitn2(strip_prefix(last.val.text, START_PREFIX).val,
                                        "|")[1]), z)
            = today
    THEN [w EXCEPT !.log = File(without_last(w.log.lines) \o <<new_start>>)]
    ELSE IF last # None /\ starts_with(last.val.text, STOP_PREFIX)
            /\ epoch < epoch_or_0(strip_prefix(last.val.text, STOP_PREFIX).val)
            /\ format_ymd(epoch_or_0(strip_prefix(last.val.text, STOP_PREFIX).val), z)
                 = today
    THEN [w EXCEPT !.log = File(without_last(w.log.lines) \o <<new_start, last.val>>)]
    ELSE [w EXCEPT !.log = File(w.log.lines \o <<new_start>>)]

\* Lines 711-756 of cmd_started, after the rotation check: w is the world it
\* left.
started_write(w, epoch, activity, n, z) ==
    started_place(w, last_nonblank(w.log.lines), Line(format_start(epoch, activity)),
                  epoch, format_ymd(n, z), z)

\* The "?" after the rotation check of cmd_started, and its write.
started_after(r, epoch, activity, n, z) ==
    IF r.ret # "Ok" THEN r ELSE Ok(started_write(r.w, epoch, activity, n, z), r.nrot)

\* args = None: no argument at all; else [time, activity].
cmd_started(w, args, n, z, spawn_ok) ==
    IF args = None THEN Err(w, ERR_MISSING_START_TIME)
    ELSE IF parse_start_time(args.val.time, n, z) = None THEN Err(w, ERR_START_TIME)
    ELSE then_spawn(started_after(maybe_rotate_if_previous_week(w, n, z),
                                  parse_start_time(args.val.time, n, z).val,
                                  activity_of(args.val.activity), n, z),
                    spawn_ok)

\* needs_start of cmd_timeoff for the log f.
needs_start(f) ==
    IF f.exists
    THEN \E last \in {last_nonblank(f.lines)} :
            last = None \/ starts_with(last.val.text, STOP_PREFIX)
    ELSE TRUE

\* cmd_timeoff from line 763 on: r is what the rotation check returned.
timeoff_write(r, n) ==
    IF r.ret # "Ok" THEN r
    ELSE IF needs_start(r.w.log)
    THEN Ok([r.w EXCEPT !.log = append_line(r.w.log, format_start(n, DEFAULT_ACTIVITY))],
            r.nrot)
    ELSE r

\* Lines 761-778 of cmd_timeoff; what follows only prints.
cmd_timeoff(w, n, z) == timeoff_write(maybe_rotate_if_previous_week(w, n, z), n)

(***************************************************************************)
(* The interval command and the interval file                              *)
(***************************************************************************)

REMINDER_SLEEP_SECS == 300

\* str::parse::<u64>: an optional "+", then digits.
parse_u64(s) ==
    IF s # <<>> /\ Head(s) = "-" THEN None ELSE parse_i64(s)

\* unwrap_or(REMINDER_SLEEP_SECS) on what parse returned.
secs_or_default(parsed) == IF parsed = None THEN REMINDER_SLEEP_SECS ELSE parsed.val

\* f is the interval file: None when it cannot be read.
get_reminder_interval_secs(f) ==
    IF f = None THEN REMINDER_SLEEP_SECS ELSE secs_or_default(parse_u64(trim(f.val)))

\* What cmd_interval prints for secs: "{}h", "{}m" or "{}s".
interval_display(secs) ==
    IF secs >= 3600 /\ secs % 3600 = 0 THEN [n |-> secs \div 3600, unit |-> "h"]
    ELSE IF secs >= 60 /\ secs % 60 = 0 THEN [n |-> secs \div 60, unit |-> "m"]
    ELSE [n |-> secs, unit |-> "s"]

\* kill_reminder_daemon_if_running, then start_reminder_daemon_if_needed.
interval_restart(w, spawn_ok) ==
    start_reminder_daemon_if_needed(kill_reminder_daemon_if_running(w, CLI_PID), spawn_ok)

\* cmd_interval with an argument that parse_interval_duration turned into
\* parsed.
interval_set(w, parsed, spawn_ok) ==
    IF parsed.kind = "Err" THEN Err(w, parsed.err)
    ELSE Ok(interval_restart(w, spawn_ok), 0)

\* The processes and the PID file after cmd_interval.
cmd_interval(w, args, spawn_ok) ==
    IF args = None THEN Ok(interval_restart(w, spawn_ok), 0)
    ELSE interval_set(w, parse_interval_duration(args.val), spawn_ok)

\* fs::write(&path, secs.to_string()) when parsed is Ok.
interval_written(f, parsed) ==
    IF parsed.kind = "Err" THEN f ELSE Some(to_string(parsed.val))

\* The interval file after cmd_interval.
cmd_interval_file(f, args) ==
    IF args = None THEN f ELSE interval_written(f, parse_interval_duration(args.val))

\* What cmd_interval prints: the interval it shows or has set.
interval_shown(parsed) ==
    IF parsed.kind = "Err" THEN None ELSE Some(interval_display(parsed.val))

cmd_interval_output(f, args) ==
    IF args = None THEN Some(interval_display(get_reminder_interval_secs(f)))
    ELSE interval_shown(parse_interval_duration(args.val))

(***************************************************************************)
(* The list report                                                         *)
(***************************************************************************)

\* a / b rounded to the nearest integer, for a >= 0 and b > 0: the "{:.1}"
\* and "{:.2}" formats round.
round_div(a, b) == (a \div b) + (IF 2 * (a % b) >= b THEN 1 ELSE 0)

\* trunc2(h) in hundredths of an hour, for h = sec / 3600 hours.
trunc2(sec) == trunc_div(sec, 36)

\* "log"
LOG_ARG == <<"l", "o", "g">>

\* resolve_list_input for the arguments of the model: none, "log", or the
\* six digits of a rotated log that exists (the one file they match).
resolve_list_input(list_arg, w) ==
    IF list_arg = None \/ list_arg.val = LOG_ARG THEN w.log
    ELSE File(w.arch[list_arg.val])

\* Lines 610-615 of cmd_list: the parsed lines of the first k lines, each
\* with its 1-based line number.
RECURSIVE parsed_lines(_, _)
parsed_lines(content, k) ==
    IF k = 0 THEN <<>>
    ELSE IF content[k].entry = None THEN parsed_lines(content, k - 1)
    ELSE Append(parsed_lines(content, k - 1), <<k, content[k].entry.val>>)

\* lines.iter().rev().find(|(_, l)| matches!(l, LogLine::Start(_, _)))
find_last_start(lines) ==
    IF \E i \in 1..Len(lines) : lines[i][2].kind = "Start"
    THEN Some(lines[CHOOSE i \in 1..Len(lines) :
                       lines[i][2].kind = "Start"
                       /\ \A j \in (i + 1)..Len(lines) : lines[j][2].kind # "Start"])
    ELSE None

\* "{}h {}m" or "{}m" of the whole minutes in dur_sec.
duration_fmt(dur_sec) ==
    LET dur_min == trunc_div(dur_sec, 60)
        dur_hr == trunc_div(dur_min, 60)
        dur_rem == dur_min - 60 * dur_hr
    IN  IF dur_hr > 0
        THEN to_string(dur_hr) \o <<"h", " ">> \o to_string(dur_rem) \o <<"m">>
        ELSE to_string(dur_min) \o <<"m">>

\* Lines 628-656 of cmd_list: what is printed for the triple res.
\* pct is in tenths of a percent, hours are in hundredths of an hour.
list_output(res, is_current, last_start, n) ==
    [status |-> "report",
     rows |-> [i \in DOMAIN res.by_act |->
                 [pct |-> round_div(10 * res.by_act[i].pct.num, res.by_act[i].pct.den),
                  hours |-> round_div(100 * res.by_act[i].hr.num, res.by_act[i].hr.den),
                  activity |-> res.by_act[i].activity]],
     days |-> [d \in 0..6 |-> round_div(100 * res.dow_hr[d].num, res.dow_hr[d].den)],
     total |-> sum_values([d \in 0..6 |-> trunc2(res.dow_hr[d].num)], 0..6),
     current |-> IF is_current /\ res.work_in_progress /\ last_start # None
                 THEN Some([activity |-> last_start.val[2].activity,
                            started |-> last_start.val[2].epoch,
                            worked |-> duration_fmt(n - last_start.val[2].epoch)])
                 ELSE None]

\* The outputs cmd_list may print; it changes no file.
cmd_list(w, list_arg, n) ==
    LET list_input == resolve_list_input(list_arg, w)
        lines == parsed_lines(list_input.lines, Len(list_input.lines))
        is_current == list_arg = None \/ list_arg.val = LOG_ARG
        last_start == find_last_start(lines)
        virtual_stop == IF is_current /\ last_start # None THEN Some(n) ELSE None
    IN  IF ~list_input.exists THEN {[status |-> "No timesheet data found."]}
        ELSE {IF res.by_act = <<>> THEN [status |-> "No work recorded."]
              ELSE list_output(res, is_current, last_start, n) :
                res \in process_log_for_report(lines, virtual_stop)}

(***************************************************************************)
(* The system: commands run from the shell, the clock, the daemons         *)
(***************************************************************************)

\* Bounds of the model: the commands and daemon steps of one behaviour, and
\* the sizes of the files.
MaxSteps == 4

MaxLogLines == 2

MaxArchLines == 3

TzOffsets == {0, -18000}

\* The instants at which something runs: Thursday 1970-01-01 00:16:40 UTC
\* and Sunday 1970-01-11 10:00 UTC, in the second week after it.
NowValues == {1000, 900000}

Activities == {<<"a">>}

\* "not-a-date", "00:10", "1969-12-30 23:00"
TimeArgs ==
    {[fmt |-> "bad"], [fmt |-> "time", secs |-> 600], [fmt |-> "datetime", naive |-> -90000]}

OptionOf(S) == {None} \cup {Some(x) : x \in S}

\* The arguments of ts started: none, or a time and an optional activity.
StartedArgs ==
    {None} \cup {Some([time |-> t, activity |-> a]) : t \in TimeArgs, a \in OptionOf(Activities)}

RECURSIVE total_lines(_, _)
total_lines(a, keys) ==
    IF keys = {} THEN 0
    ELSE LET k == CHOOSE x \in keys : TRUE
         IN  Len(a[k]) + total_lines(a, keys \ {k})

WithinBounds(w) ==
    /\ Len(w.log.lines) <= MaxLogLines
    /\ total_lines(w.arch, DOMAIN w.arch) <= MaxArchLines
    /\ Cardinality(DOMAIN w.procs) <= MaxPids

\* A command or a daemon step named name ran with argument arg in process
\* self and returned r.
Did(name, arg, self, r, printed) ==
    /\ log' = r.w.log
    /\ arch' = r.w.arch
    /\ pidfile' = r.w.pidfile
    /\ procs' = r.w.procs
    /\ cmd' = [name |-> name, arg |-> arg, self |-> self]
    /\ ret' = [val |-> r.ret, nrot |-> r.nrot]
    /\ nsteps' = nsteps + 1
    /\ out' = printed
    /\ UNCHANGED <<tz, now>>

\* The same within the bounds of the model.
Ran(name, arg, self, r, printed) ==
    /\ nsteps < MaxSteps
    /\ WithinBounds(r.w)
    /\ Did(name, arg, self, r, printed)

Tick ==
    /\ \E n \in NowValues : n > now /\ now' = n
    /\ UNCHANGED <<tz, log, arch, pidfile, procs, cmd, ret, nsteps, out>>

CmdStart ==
    \E args \in OptionOf(Activities), spawn_ok \in BOOLEAN :
        Ran("start", args, CLI_PID, cmd_start(World, args, now, tz, spawn_ok), None)

CmdStop ==
    \E t \in OptionOf(TimeArgs) :
        Ran("stop", t, CLI_PID, cmd_stop(World, t, now, tz, CLI_PID), None)

CmdStarted ==
    \E args \in StartedArgs, spawn_ok \in BOOLEAN :
        Ran("started", args, CLI_PID, cmd_started(World, args, now, tz, spawn_ok), None)

CmdTimeoff == Ran("timeoff", None, CLI_PID, cmd_timeoff(World, now, tz), None)

CmdRotate == Ran("rotate", None, CLI_PID, do_rotate(World, now, tz), None)

CmdList ==
    \E list_arg \in OptionOf({LOG_ARG} \cup DOMAIN arch) :
        \E printed \in cmd_list(World, list_arg, now) :
            Ran("list", list_arg, CLI_PID, Ok(World, 0), printed)

\* run_reminder_daemon, lines 2010-2020: the spawned process p writes its
\* pid and enters the loop.
DaemonWritePid(p) ==
    /\ p \in DOMAIN procs /\ procs[p] = "spawned"
    /\ Ran("daemon_write_pid", None, p,
           Ok([World EXCEPT !.pidfile = Some(p), !.procs[p] = "sleeping"], 0), None)

\* thread::sleep(interval) is over: the prompt is shown.
DaemonWake(p) ==
    /\ p \in DOMAIN procs /\ procs[p] = "sleeping"
    /\ Ran("daemon_wake", None, p, Ok([World EXCEPT !.procs[p] = "prompting"], 0), None)

\* A daemon exit that first closes the open session with a STOP line.
daemon_exit_stopping(w, p) ==
    [remove_pidfile(w) EXCEPT !.procs[p] = "exited",
                              !.log = append_line(w.log, format_stop(0))]

\* The scope-exit guard _cleanup and process::exit(0).
daemon_exit(w, p) == [remove_pidfile(w) EXCEPT !.procs[p] = "exited"]

DaemonDontBugMe(p) ==
    /\ p \in DOMAIN procs /\ procs[p] = "prompting"
    /\ Ran("daemon_dont_bug_me", None, p, Ok(daemon_exit(World, p), 0), None)

DaemonActivity(p) ==
    /\ p \in DOMAIN procs /\ procs[p] = "prompting"
    /\ \E a \in Activities :
        Ran("daemon_activity", Some(a), p,
            [append_start_entry(World, a, now, tz) EXCEPT !.w.procs[p] = "sleeping"], None)

DaemonShowAgain(p) ==
    /\ p \in DOMAIN procs /\ procs[p] = "prompting"
    /\ Ran("daemon_show_again", None, p, Ok([World EXCEPT !.procs[p] = "sleeping"], 0), None)

\* The end of run_reminder_daemon in a process that cmd_stop left running:
\* r is what cmd_stop returned; a process that was signalled runs no cleanup.
break_after_stop(r, p) ==
    IF r.w.procs[p] \in Alive
    THEN [r EXCEPT !.w.pidfile = None, !.w.procs[p] = "exited"]
    ELSE r

DaemonTimeout(p) ==
    /\ p \in DOMAIN procs /\ procs[p] = "prompting"
    /\ Ran("daemon_timeout", None, p,
           break_after_stop(cmd_stop(World, None, now, tz, p), p), None)

\* SIGTERM or SIGKILL sent to the daemon p from outside the program (kill,
\* logout, shutdown): run_reminder_daemon ignores SIGHUP only, so the process
\* ends at once and its scope-exit guard does not run.
DaemonSignalled(p) ==
    /\ p \in DOMAIN procs /\ procs[p] \in Alive
    /\ Ran("signal", None, p, Ok(signal_pid(World, p), 0), None)

NoCmd == [name |-> "none", arg |-> None, self |-> CLI_PID]

ParseIdle == p_line = <<>> /\ p_entry = None /\ p_res = [kind |-> "Pending"]

IntervalIdle == i_text = <<>> /\ i_res = [kind |-> "Pending"] /\ ifile = None

KillIdle ==
    /\ k_pc = "idle" /\ k_data = None /\ k_self = CLI_PID /\ k_pid = None
    /\ k_alive = {} /\ k_daemons = {} /\ k_sent = <<>>

PromptIdle == d_in = None /\ d_res = [kind |-> "Pending"]

ReportIdle ==
    /\ r_lines = <<>> /\ r_vstop = None /\ r_i = 0
    /\ stack = <<>> /\ act_sec = EmptyMap /\ dow_sec = ZeroDow
    /\ r_pc = "idle" /\ r_res = None

SysIdle ==
    /\ tz = 0 /\ now = 0
    /\ log = NoFile /\ arch = EmptyMap /\ pidfile = None /\ procs = EmptyMap
    /\ cmd = NoCmd /\ ret = [val |-> "Ok", nrot |-> 0] /\ nsteps = 0 /\ out = None

\* A fresh account: no log, no rotated log, no daemon.
Init ==
    /\ tz \in TzOffsets
    /\ now = 1000
    /\ log = NoFile
    /\ arch = EmptyMap /\ pidfile = None /\ procs = EmptyMap
    /\ cmd = NoCmd /\ ret = [val |-> "Ok", nrot |-> 0]
    /\ nsteps = 0
    /\ out = None
    /\ ParseIdle /\ ReportIdle /\ IntervalIdle /\ KillIdle /\ PromptIdle

Next ==
    \/ (Tick /\ UNCHANGED parsevars /\ UNCHANGED reportvars
           /\ UNCHANGED intervalvars /\ UNCHANGED killvars /\ UNCHANGED promptvars)
    \/ (CmdStart /\ UNCHANGED parsevars /\ UNCHANGED reportvars
           /\ UNCHANGED intervalvars /\ UNCHANGED killvars /\ UNCHANGED promptvars)
    \/ (CmdStop /\ UNCHANGED parsevars /\ UNCHANGED reportvars
           /\ UNCHANGED intervalvars /\ UNCHANGED killvars /\ UNCHANGED promptvars)
    \/ (CmdStarted /\ UNCHANGED parsevars /\ UNCHANGED reportvars
           /\ UNCHANGED intervalvars /\ UNCHANGED killvars /\ UNCHANGED promptvars)
    \/ (CmdTimeoff /\ UNCHANGED parsevars /\ UNCHANGED reportvars
           /\ UNCHANGED intervalvars /\ UNCHANGED killvars /\ UNCHANGED promptvars)
    \/ (CmdRotate /\ UNCHANGED parsevars /\ UNCHANGED reportvars
           /\ UNCHANGED intervalvars /\ UNCHANGED killvars /\ UNCHANGED promptvars)
    \/ (CmdList /\ UNCHANGED parsevars /\ UNCHANGED reportvars
           /\ UNCHANGED intervalvars /\ UNCHANGED killvars /\ UNCHANGED promptvars)
    \/ \E p \in 1..MaxPids :
        /\ \/ DaemonWritePid(p) \/ DaemonWake(p) \/ DaemonDontBugMe(p)
           \/ DaemonActivity(p) \/ DaemonShowAgain(p) \/ DaemonTimeout(p)
           \/ DaemonSignalled(p)
        /\ UNCHANGED parsevars /\ UNCHANGED reportvars
           /\ UNCHANGED intervalvars /\ UNCHANGED killvars /\ UNCHANGED promptvars

Spec == Init /\ [][Next]_vars

(***************************************************************************)
(* process_log_for_report, statement by statement                          *)
(***************************************************************************)

MaxReportLines == 3

ReportEpochs == {-3600, 1000, 4600}

ReportActs == {<<"a">>, <<"b">>}

ReportEntries ==
    {Start(e, a) : e \in ReportEpochs, a \in ReportActs} \cup {Stop(e) : e \in ReportEpochs}

\* The slices cmd_list may pass: the valid entries with their line numbers.
ReportInputs ==
    UNION {{[i \in 1..n |-> <<i, es[i]>>] : es \in [1..n -> ReportEntries]} :
             n \in 0..MaxReportLines}

\* Every variable of the commands and the daemon but the time zone.
SysQuiet ==
    /\ now = 0
    /\ log = NoFile /\ arch = EmptyMap /\ pidfile = None /\ procs = EmptyMap
    /\ cmd = NoCmd /\ ret = [val |-> "Ok", nrot |-> 0] /\ nsteps = 0 /\ out = None

InitReport ==
    /\ tz \in TzOffsets
    /\ SysQuiet
    /\ ParseIdle /\ IntervalIdle /\ KillIdle /\ PromptIdle
    /\ r_lines \in ReportInputs
    /\ r_vstop \in OptionOf(ReportEpochs)
    /\ r_i = 1
    /\ stack = <<>> /\ act_sec = EmptyMap /\ dow_sec = ZeroDow
    /\ r_pc = "loop"
    /\ r_res = None

\* The working state becomes s.
ReportSet(s) ==
    /\ stack' = s.stack
    /\ act_sec' = s.act_sec
    /\ dow_sec' = s.dow_sec

\* One iteration of the for loop on a Start entry.
ReportStart ==
    /\ r_pc = "loop" /\ r_i <= Len(r_lines)
    /\ r_lines[r_i][2].kind = "Start"
    /\ ReportSet(on_start(ReportState(stack, act_sec, dow_sec),
                          r_lines[r_i][2].epoch, r_lines[r_i][2].activity))
    /\ r_i' = r_i + 1
    /\ UNCHANGED <<r_lines, r_vstop, r_pc, r_res>>

\* One iteration of the for loop on a Stop entry.
ReportStop ==
    /\ r_pc = "loop" /\ r_i <= Len(r_lines)
    /\ r_lines[r_i][2].kind = "Stop"
    /\ ReportSet(on_stop(ReportState(stack, act_sec, dow_sec), r_lines[r_i][2].epoch))
    /\ r_i' = r_i + 1
    /\ UNCHANGED <<r_lines, r_vstop, r_pc, r_res>>

\* The loop is over: lines 572-582.
ReportVirtualStop ==
    /\ r_pc = "loop" /\ r_i > Len(r_lines)
    /\ ReportSet(on_virtual_stop(ReportState(stack, act_sec, dow_sec), r_vstop))
    /\ r_pc' = "collect"
    /\ UNCHANGED <<r_lines, r_vstop, r_i, r_res>>

\* Lines 583-596: the map is iterated in some order and the triple returned.
ReportReturn ==
    /\ r_pc = "collect"
    /\ \E it \in IterOrders(DOMAIN act_sec) :
          r_res' = Some(report_result(ReportState(stack, act_sec, dow_sec), it))
    /\ r_pc' = "done"
    /\ UNCHANGED <<r_lines, r_vstop, r_i, stack, act_sec, dow_sec>>

NextReport ==
    \/ ReportStart /\ UNCHANGED sysvars /\ UNCHANGED parsevars /\ UNCHANGED intervalvars /\ UNCHANGED killvars /\ UNCHANGED promptvars
    \/ ReportStop /\ UNCHANGED sysvars /\ UNCHANGED parsevars /\ UNCHANGED intervalvars /\ UNCHANGED killvars /\ UNCHANGED promptvars
    \/ ReportVirtualStop /\ UNCHANGED sysvars /\ UNCHANGED parsevars /\ UNCHANGED intervalvars /\ UNCHANGED killvars /\ UNCHANGED promptvars
    \/ ReportReturn /\ UNCHANGED sysvars /\ UNCHANGED parsevars /\ UNCHANGED intervalvars /\ UNCHANGED killvars /\ UNCHANGED promptvars

SpecReport == InitReport /\ [][NextReport]_vars

\* The entry of line i of r_lines.
r_entry(i) == r_lines[i][2]

\* r_lines is Start(t0, A), Stop(t1) with t1 > t0.
OnePair ==
    /\ Len(r_lines) = 2
    /\ r_entry(1).kind = "Start" /\ r_entry(2).kind = "Stop"
    /\ r_entry(2).epoch > r_entry(1).epoch

\* r_lines is a lone Start.
LoneStart == Len(r_lines) = 1 /\ r_entry(1).kind = "Start"

\* The returned triple res is: activity a alone at 100% with d seconds,
\* d seconds in weekday bucket day and none in the others, no work in
\* progress.
OneActivity(res, a, d, day) ==
    /\ Len(res.by_act) = 1
    /\ res.by_act[1].activity = a
    /\ res.by_act[1].pct.num = 100 * res.by_act[1].pct.den
    /\ res.by_act[1].hr = [num |-> d, den |-> 3600]
    /\ \A k \in 0..6 : res.dow_hr[k] = [num |-> (IF k = day THEN d ELSE 0), den |-> 3600]
    /\ res.work_in_progress = FALSE

\* C1: for a log of one Start(t0, A) and one Stop(t1), t1 > t0, and no
\* virtual stop, the report is A alone at 100% with t1 - t0 seconds, the
\* weekday bucket of t0's calendar day (local time) holds t1 - t0 seconds
\* and the other six nothing, and work in progress is false.
C1_OnePair ==
    (r_pc = "done" /\ OnePair /\ r_vstop = None)
        => OneActivity(r_res.val, r_entry(1).activity,
                       r_entry(2).epoch - r_entry(1).epoch,
                       num_days_from_sunday(date_naive(r_entry(1).epoch, tz)))

\* C2: for a lone Start(t0, A) and a virtual stop t1 > t0 the report is a
\* report of the log Start(t0, A), Stop(t1): A alone at 100% with t1 - t0
\* seconds, the same weekday buckets, and work in progress false.
C2_VirtualStop ==
    (r_pc = "done" /\ LoneStart /\ r_vstop # None /\ r_vstop.val > r_entry(1).epoch)
        => /\ r_res.val \in process_log_for_report(
                                <<r_lines[1], <<2, Stop(r_vstop.val)>> >>, None)
           /\ Len(r_res.val.by_act) = 1
           /\ r_res.val.by_act[1].activity = r_entry(1).activity
           /\ r_res.val.by_act[1].pct.num = 100 * r_res.val.by_act[1].pct.den
           /\ r_res.val.by_act[1].hr.num = r_vstop.val - r_entry(1).epoch
           /\ r_res.val.work_in_progress = FALSE

C2_Witness ==
    /\ r_pc = "done" /\ LoneStart /\ r_vstop # None /\ r_vstop.val > r_entry(1).epoch
    /\ r_res.val.by_act # <<>>

\* C3: for a lone Start and no virtual stop the report has no activity,
\* seven weekday buckets of zero, and work in progress true.
C3_LoneStart ==
    (r_pc = "done" /\ LoneStart /\ r_vstop = None)
        => /\ r_res.val.by_act = <<>>
           /\ \A k \in 0..6 : r_res.val.dow_hr[k].num = 0
           /\ r_res.val.work_in_progress = TRUE

C3_Witness == r_pc = "done" /\ LoneStart /\ r_vstop = None /\ r_res # None

\* The seconds the map m holds for activity a.
act_total(m, a) == IF a \in DOMAIN m THEN m[a] ELSE 0

\* This step closes the session on top of the stack at epoch e: the top is
\* popped and e - start, when positive, is credited to its activity alone.
ClosesTopAt(e) ==
    LET top == stack[Len(stack)]
    IN  \A a \in ReportActs :
            act_total(act_sec', a) =
                act_total(act_sec, a) + (IF a = top[2] /\ e - top[1] > 0 THEN e - top[1] ELSE 0)

\* r_lines is Start(t0, A), Start(t1, B), Stop(t2) with t0 < t1 < t2.
NestedStarts ==
    /\ Len(r_lines) = 3
    /\ r_entry(1).kind = "Start" /\ r_entry(2).kind = "Start" /\ r_entry(3).kind = "Stop"
    /\ r_entry(1).epoch < r_entry(2).epoch /\ r_entry(2).epoch < r_entry(3).epoch

\* C4: a Start(e, a) met while a session is open closes that session at e
\* and then opens (e, a); a Stop(e) closes the most recently opened Start
\* and does nothing when no session is open; so Start(t0, A), Start(t1, B),
\* Stop(t2) with t0 < t1 < t2 credits A with t1 - t0 and B with t2 - t1.
C4_LifoPairing ==
    /\ [][(r_pc = "loop" /\ r_i <= Len(r_lines) /\ r_i' = r_i + 1) =>
            LET x == r_entry(r_i)
            IN  IF x.kind = "Start"
                THEN IF stack # <<>>
                     THEN /\ ClosesTopAt(x.epoch)
                          /\ stack' = Append(SubSeq(stack, 1, Len(stack) - 1),
                                             <<x.epoch, x.activity>>)
                     ELSE /\ act_sec' = act_sec
                          /\ stack' = <<<<x.epoch, x.activity>>>>
                ELSE IF stack # <<>>
                     THEN /\ ClosesTopAt(x.epoch)
                          /\ stack' = SubSeq(stack, 1, Len(stack) - 1)
                     ELSE UNCHANGED <<stack, act_sec, dow_sec>>]_vars
    /\ []((r_pc = "done" /\ NestedStarts /\ r_vstop = None) =>
            LET A == r_entry(1).activity
                B == r_entry(2).activity
                dA == r_entry(2).epoch - r_entry(1).epoch
                dB == r_entry(3).epoch - r_entry(2).epoch
            IN  /\ \A k \in DOMAIN r_res.val.by_act :
                      r_res.val.by_act[k].hr.num =
                          (IF r_res.val.by_act[k].activity = A THEN dA ELSE 0)
                          + (IF r_res.val.by_act[k].activity = B THEN dB ELSE 0)
                /\ {r_res.val.by_act[k].activity : k \in DOMAIN r_res.val.by_act} = {A, B}
                /\ r_res.val.work_in_progress = FALSE)

C4_Witness ==
    /\ r_pc = "done" /\ NestedStarts /\ r_vstop = None
    /\ r_entry(1).activity # r_entry(2).activity
    /\ Len(r_res.val.by_act) = 2

(***************************************************************************)
(* parse_line on serialized entries and on arbitrary lines                 *)
(***************************************************************************)

MaxTailLen == 4

MaxActivityLen == 2

ParseEpochs == {-1, 0, 15, 1000}

\* The texts of at most n characters over the alphabet.
TextsUpTo(alphabet, n) == UNION {[1..k -> alphabet] : k \in 0..n}

ParseActivities == TextsUpTo({"a", "|", " "}, MaxActivityLen)

ParseEntries ==
    {Start(e, a) : e \in ParseEpochs, a \in ParseActivities} \cup {Stop(e) : e \in ParseEpochs}

Keywords ==
    {<<>>, SubSeq(START_PREFIX, 1, 5), SubSeq(STOP_PREFIX, 1, 4), <<"O", "T", "H", "E", "R">>}

\* Lines of every shape parse_line tells apart: an optional blank, a
\* keyword or none, and a short tail.
ParseLines ==
    {lead \o kw \o tail : lead \in {<<>>, <<" ">>}, kw \in Keywords,
                          tail \in TextsUpTo({"|", "1", "-", "a", " "}, MaxTailLen)}

\* p_res before serialize and before parse_line ran.
Unwritten == [kind |-> "Unwritten"]

Pending == [kind |-> "Pending"]

InitParse ==
    /\ tz = 0 /\ SysQuiet
    /\ ReportIdle /\ IntervalIdle /\ KillIdle /\ PromptIdle
    /\ \/ p_entry = None /\ p_line \in ParseLines /\ p_res = Pending
       \/ p_entry \in {Some(e) : e \in ParseEntries} /\ p_line = <<>> /\ p_res = Unwritten

\* The entry is written as a line of the log.
Serialize ==
    /\ p_res = Unwritten
    /\ p_line' = serialize(p_entry.val)
    /\ p_res' = Pending
    /\ UNCHANGED p_entry

\* The line is read back.
ParseLine ==
    /\ p_res = Pending
    /\ p_res' = parse_line(p_line)
    /\ UNCHANGED <<p_line, p_entry>>

NextParse ==
    \/ Serialize /\ UNCHANGED sysvars /\ UNCHANGED reportvars /\ UNCHANGED intervalvars /\ UNCHANGED killvars /\ UNCHANGED promptvars
    \/ ParseLine /\ UNCHANGED sysvars /\ UNCHANGED reportvars /\ UNCHANGED intervalvars /\ UNCHANGED killvars /\ UNCHANGED promptvars

SpecParse == InitParse /\ [][NextParse]_vars

\* parse_line has returned.
Parsed == p_res \notin {Unwritten, Pending}

\* C6 as stated: every serialized entry is read back as itself.
C6_RoundTripAll == (Parsed /\ p_entry # None) => p_res = p_entry

\* C6: parse_line of a serialized Stop(epoch) is that entry, and of a
\* serialized Start(epoch, activity) it is Start(epoch, activity without its
\* trailing whitespace): the same entry for every activity that does not end
\* in whitespace, the separator '|' in it included.
C6_RoundTrip ==
    (Parsed /\ p_entry # None) =>
        IF p_entry.val.kind = "Stop" THEN p_res = p_entry
        ELSE /\ p_res = Some(Start(p_entry.val.epoch, trim_end(p_entry.val.activity)))
             /\ (p_entry.val.activity = <<>>
                 \/ ~is_whitespace(p_entry.val.activity[Len(p_entry.val.activity)]))
                    => p_res = p_entry

C6_Witness ==
    /\ Parsed /\ p_entry # None /\ p_entry.val.kind = "Start"
    /\ \E i \in DOMAIN p_entry.val.activity : p_entry.val.activity[i] = "|"
    /\ p_res = p_entry

\* s is an integer numeral: an optional sign and one or more digits.
IsInteger(s) ==
    /\ s # <<>>
    /\ LET ds == IF s[1] \in {"+", "-"} THEN SubSeq(s, 2, Len(s)) ELSE s
       IN  ds # <<>> /\ \A i \in DOMAIN ds : ds[i] \in {DigitChars[k] : k \in 1..10}

\* The characters of s from position from up to the next '|' or the end.
FieldFrom(s, from) ==
    LET ends == {i \in from..Len(s) : s[i] = "|"}
    IN  SubSeq(s, from, IF ends = {} THEN Len(s)
                       ELSE (CHOOSE i \in ends : \A j \in ends : i <= j) - 1)

\* line is exactly START|<integer epoch>|<activity>.
IsStartForm(line) ==
    /\ starts_with(line, START_PREFIX)
    /\ IsInteger(FieldFrom(line, 7))
    /\ Len(FieldFrom(line, 7)) + 6 < Len(line)

\* line is exactly STOP|<integer epoch>.
IsStopForm(line) ==
    /\ starts_with(line, STOP_PREFIX)
    /\ IsInteger(SubSeq(line, 6, Len(line)))

\* C7 as stated: an entry is returned for the two forms only.
C7_StrictForms == Parsed => (p_res # None <=> (IsStartForm(p_line) \/ IsStopForm(p_line)))

\* C7: parse_line returns an entry exactly when the line, without the
\* whitespace around it, is START|<epoch> or START|<epoch>|<activity> or
\* STOP|<epoch>, where <epoch> is an integer numeral that whitespace may
\* surround; a START line without the separator after the epoch is read
\* with the empty activity.  Every other line yields nothing: blank lines,
\* a bare keyword, a non-integer epoch, an unknown keyword.
C7_Filter ==
    Parsed =>
        LET s == trim(p_line)
            start == starts_with(s, START_PREFIX) /\ IsInteger(trim(FieldFrom(s, 7)))
            stop == starts_with(s, STOP_PREFIX) /\ IsInteger(trim(SubSeq(s, 6, Len(s))))
        IN  /\ p_res # None <=> (start \/ stop)
            /\ start => p_res.val.kind = "Start"
            /\ (start /\ Len(FieldFrom(s, 7)) + 6 = Len(s)) => p_res.val.activity = <<>>
            /\ (start /\ Len(FieldFrom(s, 7)) + 6 < Len(s))
                  => p_res.val.activity = SubSeq(s, Len(FieldFrom(s, 7)) + 8, Len(s))
            /\ stop => p_res.val.kind = "Stop"
            /\ (IsStartForm(p_line) \/ IsStopForm(p_line)) => p_res # None

\* A START line without the separator after the epoch was read.
C7_Witness ==
    /\ Parsed /\ p_entry = None
    /\ p_line = START_PREFIX \o <<"1">>
    /\ p_res = Some(Start(1, <<>>))

(***************************************************************************)
(* parse_interval_duration on arbitrary duration strings                   *)
(***************************************************************************)

MaxIntervalLen == 4

IntervalChars == {"0", "1", "3", "h", "m", "S", "x", " "}

\* "1h30m", "100s", "3"
IntervalScenarios ==
    {<<"1", "h", "3", "0", "m">>, <<"1", "0", "0", "s">>, <<"3">>}

IntervalTexts == TextsUpTo(IntervalChars, MaxIntervalLen) \cup IntervalScenarios

\* The commands and daemon steps of one behaviour of SpecInterval.
MaxIntervalSteps == 1

\* Contents of the interval file: "0", "90", "x", or no file.
IntervalFiles == {None, Some(<<"0">>), Some(<<"9", "0">>), Some(<<"x">>)}

\* No daemon, or the daemon 1 asleep in its loop and named by the PID file.
DaemonStates ==
    {[pidfile |-> None, procs |-> EmptyMap],
     [pidfile |-> Some(1), procs |-> [q \in {1} |-> "sleeping"]]}

InitInterval ==
    /\ tz = 0 /\ now = 0
    /\ log = NoFile /\ arch = EmptyMap
    /\ \E d \in DaemonStates : pidfile = d.pidfile /\ procs = d.procs
    /\ cmd = NoCmd /\ ret = [val |-> "Ok", nrot |-> 0] /\ nsteps = 0 /\ out = None
    /\ ParseIdle /\ ReportIdle /\ KillIdle /\ PromptIdle
    /\ i_text \in IntervalTexts
    /\ i_res = [kind |-> "Pending"]
    /\ ifile \in IntervalFiles

\* ts interval <duration>: the argument is parsed.
ParseInterval ==
    /\ i_res = [kind |-> "Pending"]
    /\ i_res' = parse_interval_duration(i_text)
    /\ UNCHANGED <<i_text, ifile>>
    /\ UNCHANGED sysvars

\* ts interval, with the duration i_text or with no argument.
CmdInterval ==
    /\ nsteps < MaxIntervalSteps
    /\ \E args \in {None, Some(i_text)}, spawn_ok \in BOOLEAN :
          /\ Ran("interval", args, CLI_PID, cmd_interval(World, args, spawn_ok),
                 cmd_interval_output(ifile, args))
          /\ ifile' = cmd_interval_file(ifile, args)
    /\ UNCHANGED <<i_text, i_res>>

\* The top of the daemon's loop: it reads the interval and reports, under
\* TS_DEBUG, for how long it is going to sleep.
DaemonSleep(p) ==
    /\ nsteps < MaxIntervalSteps
    /\ p \in DOMAIN procs /\ procs[p] = "sleeping"
    /\ Ran("daemon_sleep", None, p, Ok(World, 0),
           Some([sleeping |-> get_reminder_interval_secs(ifile)]))
    /\ UNCHANGED intervalvars /\ UNCHANGED killvars /\ UNCHANGED promptvars

NextInterval ==
    \/ ParseInterval /\ UNCHANGED parsevars /\ UNCHANGED reportvars /\ UNCHANGED killvars /\ UNCHANGED promptvars
    \/ CmdInterval /\ UNCHANGED parsevars /\ UNCHANGED reportvars /\ UNCHANGED killvars /\ UNCHANGED promptvars
    \/ \E p \in 1..MaxPids : DaemonSleep(p) /\ UNCHANGED parsevars /\ UNCHANGED reportvars

SpecInterval == InitInterval /\ [][NextInterval]_vars

\* The positions of s at which a number begins.
NumberStarts(s) ==
    {j \in 1..Len(s) : is_ascii_digit(s[j]) /\ (j = 1 \/ ~is_ascii_digit(s[j - 1]))}

\* The position of the last digit of the number that begins at j.
NumberEnd(s, j) ==
    CHOOSE k \in j..Len(s) :
        /\ \A m \in j..k : is_ascii_digit(s[m])
        /\ k = Len(s) \/ ~is_ascii_digit(s[k + 1])

\* What the number s[j..k] with the character after it stands for, in
\* seconds: hours, seconds, or else minutes.
TokenSeconds(s, j, k) ==
    parse_i64(SubSeq(s, j, k)).val
      * (IF k < Len(s) /\ s[k + 1] \in {"h", "H"} THEN 3600
         ELSE IF k < Len(s) /\ s[k + 1] \in {"s", "S"} THEN 1
         ELSE 60)

\* The sum over the <number><unit> tokens of s.
TokenSum(s) ==
    sum_values([j \in NumberStarts(s) |-> TokenSeconds(s, j, NumberEnd(s, j))],
               NumberStarts(s))

\* C20: parse_interval_duration returns the sum over the <number><unit>
\* tokens of its input (h = 3600 s, m = 60 s, s = 1 s, in either case; a
\* number without a unit counts minutes), so that "1h30m" gives 5400,
\* "100s" gives 100 and "3" gives 180; the empty string and every input
\* whose sum is zero are rejected with an error.
C20_IntervalSum ==
    i_res # [kind |-> "Pending"]
      => /\ i_text = <<>> => i_res.kind = "Err"
         /\ IF TokenSum(i_text) = 0 THEN i_res.kind = "Err"
            ELSE i_res = [kind |-> "Ok", val |-> TokenSum(i_text)]
         /\ i_text = <<"1", "h", "3", "0", "m">> => i_res = [kind |-> "Ok", val |-> 5400]
         /\ i_text = <<"1", "0", "0", "s">> => i_res = [kind |-> "Ok", val |-> 100]
         /\ i_text = <<"3">> => i_res = [kind |-> "Ok", val |-> 180]

\* "1h30m" was parsed: two tokens with different units were added up.
C20_Witness ==
    i_text = <<"1", "h", "3", "0", "m">> /\ i_res = [kind |-> "Ok", val |-> 5400]

\* s is a sequence of <number><unit> tokens, the unit being one of h, m, s
\* in either case and possibly missing after the last number.
TokenSequence(s) ==
    /\ s # <<>>
    /\ is_ascii_digit(s[1])
    /\ \A i \in 1..Len(s) :
          \/ is_ascii_digit(s[i])
          \/ s[i] \in {"h", "H", "m", "M", "s", "S"} /\ is_ascii_digit(s[i - 1])

\* C21: ts interval with a duration that, blanks around it aside, is not a
\* sequence of <number><unit> tokens or whose total is not positive returns
\* an error, and leaves the interval file, the PID file and the processes as
\* they were.
C21_IntervalRejects ==
    [][(nsteps' = nsteps + 1 /\ cmd'.name = "interval" /\ cmd'.arg # None
        /\ (~TokenSequence(trim(cmd'.arg.val)) \/ TokenSum(cmd'.arg.val) <= 0))
       => (ret'.val # "Ok" /\ UNCHANGED <<ifile, pidfile, procs>>)]_vars

\* s is a decimal positive integer.
PositiveDecimal(s) ==
    /\ s # <<>>
    /\ \A i \in 1..Len(s) : is_ascii_digit(s[i])
    /\ digits_value(s) > 0

\* C22: the interval the daemon sleeps for is positive: the value of the
\* interval file when the file holds a decimal positive integer, and 300
\* when the file is absent or holds anything else.
C22_PositiveInterval ==
    cmd.name = "daemon_sleep"
      => /\ out.val.sleeping > 0
         /\ out.val.sleeping =
              (IF ifile # None /\ PositiveDecimal(trim(ifile.val))
               THEN digits_value(trim(ifile.val)) ELSE 300)

(***************************************************************************)
(* One command on a log the user may have edited                           *)
(***************************************************************************)

\* The log is a text file the user may edit: a command may find any lines in
\* it, blank ones included.
MaxLogSteps == 1

MaxHandLines == 3

\* Tuesday 1969-12-30 23:00 UTC, Thursday 1970-01-01 00:08:20 UTC and
\* Sunday 1970-01-11 09:43:20 UTC.
HandEpochs == {-90000, 500, 899000}

HandLines ==
    {Line(<<>>)} \cup {Line(format_stop(e)) : e \in HandEpochs}
                 \cup {Line(format_start(e, a)) : e \in HandEpochs, a \in Activities}

HandLogs == {NoFile} \cup {File(ls) : ls \in UNION {[1..k -> HandLines] : k \in 0..MaxHandLines}}

InitLog ==
    /\ tz \in TzOffsets
    /\ now \in NowValues
    /\ log \in HandLogs
    /\ arch = EmptyMap
    /\ \E d \in DaemonStates : pidfile = d.pidfile /\ procs = d.procs
    /\ cmd = NoCmd /\ ret = [val |-> "Ok", nrot |-> 0] /\ nsteps = 0 /\ out = None
    /\ ParseIdle /\ ReportIdle /\ IntervalIdle /\ KillIdle /\ PromptIdle

LogStart ==
    /\ nsteps < MaxLogSteps
    /\ \E args \in OptionOf(Activities), spawn_ok \in BOOLEAN :
          Did("start", args, CLI_PID, cmd_start(World, args, now, tz, spawn_ok), None)

LogStop ==
    /\ nsteps < MaxLogSteps
    /\ \E t \in OptionOf(TimeArgs) :
          Did("stop", t, CLI_PID, cmd_stop(World, t, now, tz, CLI_PID), None)

LogStarted ==
    /\ nsteps < MaxLogSteps
    /\ \E args \in StartedArgs, spawn_ok \in BOOLEAN :
          Did("started", args, CLI_PID, cmd_started(World, args, now, tz, spawn_ok), None)

LogRotate ==
    /\ nsteps < MaxLogSteps
    /\ Did("rotate", None, CLI_PID, do_rotate(World, now, tz), None)

NextLog ==
    \/ LogStart /\ UNCHANGED parsevars /\ UNCHANGED reportvars /\ UNCHANGED intervalvars /\ UNCHANGED killvars /\ UNCHANGED promptvars
    \/ LogStop /\ UNCHANGED parsevars /\ UNCHANGED reportvars /\ UNCHANGED intervalvars /\ UNCHANGED killvars /\ UNCHANGED promptvars
    \/ LogStarted /\ UNCHANGED parsevars /\ UNCHANGED reportvars /\ UNCHANGED intervalvars /\ UNCHANGED killvars /\ UNCHANGED promptvars
    \/ LogRotate /\ UNCHANGED parsevars /\ UNCHANGED reportvars /\ UNCHANGED intervalvars /\ UNCHANGED killvars /\ UNCHANGED promptvars

SpecLog == InitLog /\ [][NextLog]_vars

(***************************************************************************)
(* cmd_stop and kill_reminder_daemon_if_running, statement by statement    *)
(***************************************************************************)

\* Here the PID file is kept as its text, which need not be a number, and
\* the processes are those the kernel knows: a pid may belong to a reminder
\* daemon, to the caller, or to any other process.
MaxKillPid == 3

KillPids == 1..MaxKillPid

SIGTERM == "SIGTERM"

SIGKILL == "SIGKILL"

\* data.trim().parse::<u32>(); no text of the model exceeds u32::MAX.
parse_u32(data) == parse_u64(trim(data))

\* What lines 1871-1873 make of the PID file: the pid in it, if it can be
\* read and its text is one.
recorded_pid(data) == IF data = None THEN None ELSE parse_u32(data.val)

\* kill(pid, 0) == 0
kill0(alive, pid) == pid \in alive

\* A variant of the test after the wait that takes the process to be there.
still_running_assumed(alive, pid) == TRUE

\* is_pid_running(pid) after thread::sleep(150 ms), line 1885.
still_running(alive, pid) == kill0(alive, pid)

\* What the PID file may hold: a pid, a pid with blanks around it, text that
\* is no number, nothing.
PidTexts ==
    {to_string(q) : q \in KillPids} \cup {<<" ", "3">>, <<"x">>, <<>>}

\* The logs ts stop may find: none, an open START, a START and its STOP.
StopLogs ==
    {NoFile, File(<<Line(format_start(500, <<"a">>))>>),
     File(<<Line(format_start(500, <<"a">>)), Line(format_stop(600))>>)}

\* kill_reminder_daemon_if_running is entered from cmd_stop ("stop") or
\* from another caller ("entry").
InitKill ==
    /\ tz = 0 /\ now = 1000
    /\ log \in StopLogs
    /\ arch = EmptyMap /\ pidfile = None /\ procs = EmptyMap
    /\ cmd = NoCmd /\ ret = [val |-> "Ok", nrot |-> 0] /\ nsteps = 0 /\ out = None
    /\ ParseIdle /\ ReportIdle /\ IntervalIdle /\ PromptIdle
    /\ k_pc \in {"stop", "entry"}
    /\ k_data \in {None} \cup {Some(t) : t \in PidTexts}
    /\ k_self \in KillPids
    /\ k_pid = None
    /\ k_alive \in {a \in SUBSET KillPids : k_self \in a}
    /\ k_daemons \in SUBSET KillPids
    /\ k_sent = <<>>

\* Lines 506-519 and 527-533 of cmd_stop: the rotation check, the parse of
\* the time and the write of the log; r is what they return.
StopRecorded(t, r) ==
    /\ log' = r.w.log
    /\ arch' = r.w.arch
    /\ cmd' = [name |-> "stop", arg |-> t, self |-> k_self]
    /\ ret' = [val |-> r.ret, nrot |-> r.nrot]
    /\ k_pc' = IF r.kill THEN "entry" ELSE "returned"

StopRecord ==
    /\ k_pc = "stop"
    /\ \E t \in OptionOf(TimeArgs) :
          StopRecorded(t, stop_record(maybe_rotate_if_previous_week(World, now, tz), t, now, tz))
    /\ UNCHANGED <<tz, now, pidfile, procs, nsteps, out>>
    /\ UNCHANGED <<k_data, k_self, k_pid, k_alive, k_daemons, k_sent>>

\* Lines 1871-1873: the PID file cannot be read, or its text is no pid.
KillNoPid ==
    /\ k_pc = "entry"
    /\ recorded_pid(k_data) = None
    /\ k_pc' = "remove"
    /\ UNCHANGED <<k_data, k_self, k_pid, k_alive, k_daemons, k_sent>>

\* Lines 1874-1878: the pid is the caller's; the file is removed and the
\* function returns.
KillSelf ==
    /\ k_pc = "entry"
    /\ recorded_pid(k_data) = Some(k_self)
    /\ k_data' = None
    /\ k_pid' = Some(k_self)
    /\ k_pc' = "done"
    /\ UNCHANGED <<k_self, k_alive, k_daemons, k_sent>>

\* Lines 1879-1891: is_pid_running(pid) decides between the signal and the
\* removal of the file.
KillProbe ==
    /\ k_pc = "entry"
    /\ recorded_pid(k_data) \notin {None, Some(k_self)}
    /\ k_pid' = recorded_pid(k_data)
    /\ k_pc' = IF kill0(k_alive, recorded_pid(k_data).val) THEN "term" ELSE "remove"
    /\ UNCHANGED <<k_data, k_self, k_alive, k_daemons, k_sent>>

\* Lines 1883-1884: signal_pid(pid, SIGTERM) and the wait of 150 ms, during
\* which the process ends or, if it handles the signal or is stopped, does
\* not.
KillTerm ==
    /\ k_pc = "term"
    /\ k_sent' = Append(k_sent, [sig |-> SIGTERM, pid |-> k_pid.val])
    /\ \E ends \in BOOLEAN : k_alive' = IF ends THEN k_alive \ {k_pid.val} ELSE k_alive
    /\ k_pc' = "wait"
    /\ UNCHANGED <<k_data, k_self, k_pid, k_daemons>>

\* Line 1885: the second is_pid_running(pid).
KillCheck ==
    /\ k_pc = "wait"
    /\ k_pc' = IF still_running(k_alive, k_pid.val) THEN "kill" ELSE "remove"
    /\ UNCHANGED <<k_data, k_self, k_pid, k_alive, k_daemons, k_sent>>

\* Lines 1886-1887: signal_pid(pid, SIGKILL), which no process survives.
KillKill ==
    /\ k_pc = "kill"
    /\ k_sent' = Append(k_sent, [sig |-> SIGKILL, pid |-> k_pid.val])
    /\ k_alive' = k_alive \ {k_pid.val}
    /\ k_pc' = "remove"
    /\ UNCHANGED <<k_data, k_self, k_pid, k_daemons>>

\* Line 1896: fs::remove_file(&pid_path), and the return.
KillRemove ==
    /\ k_pc = "remove"
    /\ k_data' = None
    /\ k_pc' = "done"
    /\ UNCHANGED <<k_self, k_pid, k_alive, k_daemons, k_sent>>

NextKill ==
    \/ StopRecord /\ UNCHANGED parsevars /\ UNCHANGED reportvars /\ UNCHANGED intervalvars /\ UNCHANGED promptvars
    \/ KillNoPid /\ UNCHANGED sysvars /\ UNCHANGED parsevars /\ UNCHANGED reportvars /\ UNCHANGED intervalvars /\ UNCHANGED promptvars
    \/ KillSelf /\ UNCHANGED sysvars /\ UNCHANGED parsevars /\ UNCHANGED reportvars /\ UNCHANGED intervalvars /\ UNCHANGED promptvars
    \/ KillProbe /\ UNCHANGED sysvars /\ UNCHANGED parsevars /\ UNCHANGED reportvars /\ UNCHANGED intervalvars /\ UNCHANGED promptvars
    \/ KillTerm /\ UNCHANGED sysvars /\ UNCHANGED parsevars /\ UNCHANGED reportvars /\ UNCHANGED intervalvars /\ UNCHANGED promptvars
    \/ KillCheck /\ UNCHANGED sysvars /\ UNCHANGED parsevars /\ UNCHANGED reportvars /\ UNCHANGED intervalvars /\ UNCHANGED promptvars
    \/ KillKill /\ UNCHANGED sysvars /\ UNCHANGED parsevars /\ UNCHANGED reportvars /\ UNCHANGED intervalvars /\ UNCHANGED promptvars
    \/ KillRemove /\ UNCHANGED sysvars /\ UNCHANGED parsevars /\ UNCHANGED reportvars /\ UNCHANGED intervalvars /\ UNCHANGED promptvars

SpecKill == InitKill /\ [][NextKill]_vars

\* C31: kill_reminder_daemon_if_running sends SIGTERM, and nothing before
\* it, exactly when the recorded pid is alive and not the caller's; it sends
\* SIGKILL only after that SIGTERM, to the same pid, and only when the
\* process is still alive after the wait; and whatever it found, the PID
\* file does not exist when it returns.
C31_Escalation ==
    [][/\ (k_pc = "entry" /\ k_pc' = "term")
            <=> (k_pc = "entry" /\ \E q \in k_alive \ {k_self} : recorded_pid(k_data) = Some(q))
       /\ k_sent' # k_sent
            => \/ /\ k_sent = <<>> /\ k_pc = "term"
                  /\ k_sent' = <<[sig |-> SIGTERM, pid |-> k_pid.val]>>
               \/ /\ k_sent = <<[sig |-> SIGTERM, pid |-> k_pid.val]>>
                  /\ k_pid.val \in k_alive
                  /\ k_sent' = Append(k_sent, [sig |-> SIGKILL, pid |-> k_pid.val])
       /\ k_pc = "term" => k_sent' # k_sent
       /\ k_pc = "wait" => (k_pc' = "kill" <=> k_pid.val \in k_alive)
       /\ k_pc = "kill" => k_sent' # k_sent
       /\ k_pc' = "done" => k_data' = None]_vars

\* The function returned after it sent SIGTERM and then SIGKILL to a process
\* that did not end within the wait.
C31_Witness ==
    /\ k_pc = "done" /\ k_data = None
    /\ Len(k_sent) = 2 /\ k_sent[1].sig = SIGTERM /\ k_sent[2].sig = SIGKILL

\* C32: ts stop writes no STOP while the process recorded in the PID file is
\* alive and has not yet been sent a signal: the daemon is asked to
\* terminate before the log is written, when a STOP is appended and when
\* one is amended.
C32_KillBeforeWrite ==
    [][(cmd'.name = "stop" /\ log' # log)
       => (k_sent # <<>> \/ ~\E q \in k_alive \ {k_self} : recorded_pid(k_data) = Some(q))]_vars

\* C40: kill_reminder_daemon_if_running sends no signal to a process that is
\* not a reminder daemon, also when the pid of a stale PID file now belongs
\* to another live process.
C40_OnlyDaemons == \A i \in 1..Len(k_sent) : k_sent[i].pid \in k_daemons

(***************************************************************************)
(* show_reminder_prompt on macOS: the dialogs and the result               *)
(***************************************************************************)

\* ReminderResult
DontBugMe == [kind |-> "DontBugMe"]

Activity(text) == [kind |-> "Activity", text |-> text]

EnterNew == [kind |-> "EnterNew"]

ShowAgain == [kind |-> "ShowAgain"]

Timeout == [kind |-> "Timeout"]

\* What a dialog process gives back: it could not be spawned, it did not
\* finish in time or without error, or it printed text.
SpawnFailed == [kind |-> "SpawnFailed"]

NotFinished == [kind |-> "NotFinished"]

Printed(text) == [kind |-> "Printed", text |-> text]

\* The buttons and list items, as tokens: "Don't Bug Me", "Enter new
\* activity...", the cancel answer "false" of choose from list, an activity
\* of the list.
DONT_BUG_ME == <<"D">>

ENTER_NEW == <<"N">>

CANCELLED == <<"f">>

LISTED == <<"a">>

\* One attempt of prompt_enter_activity_macos (lines 2083-2106).
run_enter(o) ==
    IF o.kind # "Printed" THEN None
    ELSE IF trim(o.text) = <<>> THEN None
    ELSE Some(trim(o.text))

\* run(true).or_else(|| run(false))
prompt_enter_activity_macos(d) ==
    IF run_enter(d.enter1) # None THEN run_enter(d.enter1) ELSE run_enter(d.enter2)

\* try_native (lines 2137-2171): o is what ts --reminder-dialog gave back.
try_native(o) ==
    IF o.kind # "Printed" THEN None
    ELSE IF o.text = DONT_BUG_ME THEN Some(DontBugMe)
    ELSE IF o.text = ENTER_NEW THEN Some(EnterNew)
    ELSE IF o.text = LISTED THEN Some(Activity(o.text))
    ELSE None

\* Lines 2252-2257: the text prompt after "Enter new activity..." was
\* picked in the osascript list.
enter_or_timeout(entered) ==
    IF entered # None THEN Activity(entered.val) ELSE Timeout

\* Lines 2175-2178 and 2185-2188: the text prompt after EnterNew.
enter_or_again(entered) ==
    IF entered # None THEN Activity(entered.val) ELSE ShowAgain

\* Lines 2174-2181 and 2184-2191: res is what try_native returned, not None.
native_result(res, d) ==
    IF res = EnterNew THEN enter_or_again(prompt_enter_activity_macos(d)) ELSE res

\* The text dialog of show_reminder_prompt_macos_systemui (lines 2353-2391).
systemui_text(o) ==
    IF o.kind # "Printed" THEN Timeout
    ELSE IF o.text = DONT_BUG_ME THEN DontBugMe
    ELSE IF trim(o.text) # <<>> THEN Activity(trim(o.text))
    ELSE Timeout

\* The list dialog of show_reminder_prompt_macos_systemui (lines 2322-2351),
\* shown when there are more than two choices.
systemui_list(d) ==
    IF ~d.many \/ d.sys_list.kind # "Printed" THEN systemui_text(d.sys_text)
    ELSE IF d.sys_list.text = CANCELLED THEN Timeout
    ELSE IF d.sys_list.text = DONT_BUG_ME THEN DontBugMe
    ELSE IF d.sys_list.text # ENTER_NEW THEN Activity(d.sys_list.text)
    ELSE systemui_text(d.sys_text)

\* show_reminder_prompt_macos_systemui: the buttons dialog (lines 2292-2314)
\* and what follows it.
show_reminder_prompt_macos_systemui(d) ==
    IF d.sys_buttons.kind # "Printed" THEN systemui_list(d)
    ELSE IF d.sys_buttons.text = DONT_BUG_ME THEN DontBugMe
    ELSE IF d.sys_buttons.text = ENTER_NEW THEN systemui_list(d)
    ELSE Activity(d.sys_buttons.text)

\* Lines 2225-2265: the osascript choose from list.
osascript_list(d) ==
    IF d.osa.kind # "Printed" THEN Timeout
    ELSE IF d.osa.text = CANCELLED THEN Timeout
    ELSE IF d.osa.text = DONT_BUG_ME THEN DontBugMe
    ELSE IF d.osa.text = ENTER_NEW
    THEN enter_or_timeout(prompt_enter_activity_macos(d))
    ELSE Activity(d.osa.text)

\* Lines 2199-2204: what the SystemUIServer dialogs returned decides, or the
\* osascript list is shown.
systemui_or_osascript(sys, d) ==
    IF sys = DontBugMe THEN sys
    ELSE IF sys.kind = "Activity" /\ sys.text # <<>> THEN sys
    ELSE osascript_list(d)

show_reminder_prompt_macos(d) ==
    IF try_native(d.native1) # None THEN native_result(try_native(d.native1).val, d)
    ELSE IF try_native(d.native2) # None THEN native_result(try_native(d.native2).val, d)
    ELSE systemui_or_osascript(show_reminder_prompt_macos_systemui(d), d)

\* What the dialogs may give back.  An activity can be chosen only when the
\* list of choices holds one, that is when there are more than two choices.
ChoiceOuts(many) ==
    {NotFinished, Printed(DONT_BUG_ME), Printed(ENTER_NEW)} \cup (IF many THEN {Printed(LISTED)} ELSE {})

EnterOuts == {NotFinished, Printed(<<>>), Printed(<<"b">>)}

TextOuts == {SpawnFailed, NotFinished, Printed(DONT_BUG_ME), Printed(<<" ">>), Printed(<<"b">>)}

DialogInputs ==
    UNION {[native1 : ChoiceOuts(many), native2 : ChoiceOuts(many),
            enter1 : EnterOuts, enter2 : EnterOuts,
            many : {many},
            sys_buttons : ChoiceOuts(many),
            sys_list : ChoiceOuts(many) \cup {Printed(CANCELLED)},
            sys_text : TextOuts,
            osa : ChoiceOuts(many) \cup {SpawnFailed, Printed(CANCELLED)}] : many \in BOOLEAN}

InitPrompt ==
    /\ tz = 0 /\ SysQuiet
    /\ ParseIdle /\ ReportIdle /\ IntervalIdle /\ KillIdle
    /\ d_in \in {Some(d) : d \in DialogInputs}
    /\ d_res = [kind |-> "Pending"]

Prompt ==
    /\ d_res = [kind |-> "Pending"]
    /\ d_res' = show_reminder_prompt_macos(d_in.val)
    /\ UNCHANGED d_in

NextPrompt ==
    Prompt /\ UNCHANGED sysvars /\ UNCHANGED parsevars /\ UNCHANGED reportvars
           /\ UNCHANGED intervalvars /\ UNCHANGED killvars

SpecPrompt == InitPrompt /\ [][NextPrompt]_vars

\* The dialog that decided was one in which the user picked "Enter new
\* activity...", and the text prompt that followed is that of
\* prompt_enter_activity_macos.
PickedEnterNew(d) ==
    \/ try_native(d.native1) = Some(EnterNew)
    \/ try_native(d.native1) = None /\ try_native(d.native2) = Some(EnterNew)
    \/ /\ try_native(d.native1) = None /\ try_native(d.native2) = None
       /\ show_reminder_prompt_macos_systemui(d) = Timeout
       /\ d.osa = Printed(ENTER_NEW)

\* C33: when the user picked "Enter new activity..." and the text prompt
\* yields nothing, the result is ShowAgain, whichever dialog was shown; when
\* it yields text, the result is Activity of that text.
C33_EnterNewShowAgain ==
    (d_res.kind # "Pending" /\ PickedEnterNew(d_in.val))
      => d_res = (IF prompt_enter_activity_macos(d_in.val) = None THEN ShowAgain
                  ELSE Activity(prompt_enter_activity_macos(d_in.val).val))

\* The entry or the virtual stop that the step about to be taken by
\* process_log_for_report closes the open session with, if there is one.
ClosingEpoch ==
    IF r_pc = "loop" /\ r_i <= Len(r_lines) THEN Some(r_lines[r_i][2].epoch)
    ELSE IF r_pc = "loop" THEN r_vstop
    ELSE None

\* The session on top of the stack is closed by this step, with a positive
\* duration.
SessionCloses ==
    /\ stack # <<>> /\ ClosingEpoch # None
    /\ <<r_i, r_pc>>' # <<r_i, r_pc>>
    /\ ClosingEpoch.val > stack[Len(stack)][1]

\* C35: a step that closes a session adds its whole duration to the weekday
\* bucket (Sunday = 0 .. Saturday = 6) of the calendar day, in local time,
\* of the session's start, and nothing to the other buckets, whatever the
\* start epoch; a start within day 0 goes to bucket 4.
C35_StartDayBucket ==
    [][SessionCloses
        => /\ \A d \in 0..6 :
                dow_sec'[d] = dow_sec[d] +
                    (IF d = num_days_from_sunday(date_naive(stack[Len(stack)][1], tz))
                     THEN ClosingEpoch.val - stack[Len(stack)][1] ELSE 0)
           /\ (date_naive(stack[Len(stack)][1], tz) = 0
                 => dow_sec'[4] = dow_sec[4] + ClosingEpoch.val - stack[Len(stack)][1])]_vars

\* C38: while process_log_for_report runs, on any sequence of entries, its
\* stack holds at most one open session; so when a virtual stop is supplied
\* the work-in-progress flag it returns is false.
C38_StackAtMostOne ==
    /\ Len(stack) <= 1
    /\ (r_pc = "done" /\ r_vstop # None) => r_res.val.work_in_progress = FALSE

\* Two Start entries in a row were processed, the last entry is a Start, a
\* virtual stop was supplied, and the function has returned.
C38_Witness ==
    /\ r_pc = "done" /\ r_vstop # None
    /\ Len(r_lines) >= 2
    /\ r_entry(1).kind = "Start" /\ r_entry(2).kind = "Start"
    /\ r_entry(Len(r_lines)).kind = "Start"
    /\ r_entry(Len(r_lines)).epoch < r_vstop.val
    /\ r_res.val.work_in_progress = FALSE

(***************************************************************************)
(* Properties of the commands                                              *)
(***************************************************************************)

\* This step is a run of the command or daemon step called name.
StepOf(name) == nsteps' = nsteps + 1 /\ cmd'.name = name

\* The last non-blank line of the log is a START line.
LastIsStart == log.exists /\ last_starts_with(log.lines, START_PREFIX)

\* C5: when cmd_list reports on the current log and its last entry is a
\* START that began before now, the report ends with the current-task
\* block: that START's activity, its start time and the elapsed duration.
C5_CurrentTask ==
    [][(StepOf("list") /\ (cmd'.arg = None \/ cmd'.arg = Some(LOG_ARG))
        /\ LastIsStart
        /\ last_nonblank(log.lines).val.entry # None
        /\ last_nonblank(log.lines).val.entry.val.epoch < now)
       => LET e == last_nonblank(log.lines).val.entry.val
          IN  /\ out'.status = "report"
              /\ out'.current = Some([activity |-> e.activity, started |-> e.epoch,
                                      worked |-> duration_fmt(now - e.epoch)])]_vars

\* C8: do_rotate on a missing log returns the no-data error and changes no
\* file; of two rotations in a row the second returns that error.
C8_RotateMissing ==
    /\ [][(StepOf("rotate") /\ ~log.exists)
            => (ret'.val = ERR_NO_DATA /\ UNCHANGED <<log, arch, pidfile, procs>>)]_vars
    /\ [][(StepOf("rotate") /\ cmd.name = "rotate" /\ ret.val = "Ok")
            => ret'.val = ERR_NO_DATA]_vars

C8_Witness ==
    /\ cmd.name = "rotate" /\ ret.val = ERR_NO_DATA
    /\ ~log.exists /\ DOMAIN arch # {}

\* The lines the archive holds under stamp d.
arch_lines(a, d) == IF d \in DOMAIN a THEN a[d] ELSE <<>>

\* C9: after a successful do_rotate the log no longer exists and one dated
\* target holds its former lines (none when it did not exist) followed by
\* all lines of the log, the STOP that do_rotate adds to an open START
\* included; every other file is as before.
C9_RotateAppends ==
    [][(StepOf("rotate") /\ ret'.val = "Ok")
        => /\ ~log'.exists
           /\ \E dest \in DOMAIN arch' :
                 /\ DOMAIN arch' = DOMAIN arch \cup {dest}
                 /\ arch'[dest] = arch_lines(arch, dest) \o log.lines
                                    \o (IF LastIsStart THEN <<Line(format_stop(now))>>
                                        ELSE <<>>)
                 /\ \A d \in DOMAIN arch \ {dest} : arch'[d] = arch[d]]_vars

\* A rotation was appended to a target that existed: the target holds two
\* STOP lines in a row, which the commands never leave in one log.
C9_Witness ==
    /\ cmd.name = "rotate" /\ ret.val = "Ok" /\ ~log.exists
    /\ \E d \in DOMAIN arch :
          \E i \in 1..(Len(arch[d]) - 1) :
              /\ arch[d][i].entry # None /\ arch[d][i].entry.val.kind = "Stop"
              /\ arch[d][i + 1].entry # None /\ arch[d][i + 1].entry.val.kind = "Stop"

\* The last entry of the log is older than the current local week.
Stale ==
    /\ log.exists
    /\ last_line_epoch(log) # None
    /\ last_line_epoch(log).val < week_start_epoch(now, tz)

\* The command c changes the log, and its time argument, if any, can be
\* parsed.
Mutating(c) ==
    \/ c.name \in {"start", "timeoff", "daemon_activity"}
    \/ c.name = "stop"
       /\ (c.arg = None \/ parse_start_time(c.arg.val, now, tz) # None)
    \/ c.name = "started"
       /\ c.arg # None /\ parse_start_time(c.arg.val.time, now, tz) # None

\* C10: a mutating command that finds the last entry older than the current
\* local week rotates the log exactly once before its own mutation, so that
\* the log afterwards holds its own entry at most and every former line is
\* in a rotated log; when the last entry is not that old, or the log is
\* missing, it rotates nothing.
C10_LazyRotation ==
    [][(nsteps' = nsteps + 1 /\ Mutating(cmd'))
        => IF Stale
           THEN /\ ret'.nrot = 1
                /\ Len(log'.lines) <= 1
                /\ \E dest \in DOMAIN arch' :
                      /\ Len(arch'[dest]) >= Len(arch_lines(arch, dest)) + Len(log.lines)
                      /\ \A i \in DOMAIN log.lines :
                            arch'[dest][Len(arch_lines(arch, dest)) + i] = log.lines[i]
           ELSE ret'.nrot = 0 /\ arch' = arch]_vars

\* The step is ts stop or ts started with a time argument that cannot be
\* parsed.
BadTimeStep ==
    \/ StepOf("stop") /\ cmd'.arg = Some([fmt |-> "bad"])
    \/ StepOf("started") /\ cmd'.arg # None /\ cmd'.arg.val.time = [fmt |-> "bad"]

\* C23: ts stop and ts started with a time that cannot be parsed return an
\* error and leave the log, the rotated logs, the PID file and the processes
\* exactly as they were, however old the last entry of the log is.
C23_BadTimeNoChange ==
    [][BadTimeStep => (ret'.val # "Ok" /\ UNCHANGED <<log, arch, pidfile, procs>>)]_vars

\* The last non-blank line of the log is a STOP line.
LastIsStop == log.exists /\ last_starts_with(log.lines, STOP_PREFIX)

\* C24: ts stop without a time, when the last entry of the log is a STOP,
\* changes nothing: the log and the rotated logs hold what they held.
C24_StopNoChange ==
    [][(StepOf("stop") /\ cmd'.arg = None /\ LastIsStop)
       => (ret'.val = "Ok" /\ UNCHANGED <<log, arch>>)]_vars

\* The texts of the non-blank lines of ls, in order.
RECURSIVE Nonblank(_)
Nonblank(ls) ==
    IF ls = <<>> THEN <<>>
    ELSE IF trim(Head(ls).text) = <<>> THEN Nonblank(Tail(ls))
    ELSE <<Head(ls).text>> \o Nonblank(Tail(ls))

\* after is before with its last element replaced by text.
LastReplaced(before, after, text) ==
    /\ before # <<>>
    /\ Len(after) = Len(before)
    /\ \A i \in 1..(Len(before) - 1) : after[i] = before[i]
    /\ after[Len(after)] = text

\* C25: ts stop with a time that parses to t, when the last entry of the
\* log is a STOP, amends that entry: the log holds as many entries as
\* before, the earlier ones unchanged and the last one STOP|t, whether or
\* not blank lines follow the last STOP.
C25_StopAmends ==
    [][(StepOf("stop") /\ cmd'.arg # None /\ parse_start_time(cmd'.arg.val, now, tz) # None
        /\ LastIsStop)
       => /\ ret'.val = "Ok"
          /\ LastReplaced(Nonblank(log.lines), Nonblank(log'.lines),
                          format_stop(parse_start_time(cmd'.arg.val, now, tz).val))]_vars

\* The epoch ts stop records for the time argument t.
StopEpoch(t) == IF t = None THEN now ELSE parse_start_time(t.val, now, tz).val

\* C26: ts stop, when the last entry of the log is an open START, appends
\* exactly one STOP line, at now or at the given time, after it and changes
\* no line that was there.
C26_StopAppends ==
    [][(StepOf("stop") /\ LastIsStart
        /\ (cmd'.arg = None \/ parse_start_time(cmd'.arg.val, now, tz) # None))
       => /\ ret'.val = "Ok"
          /\ log'.lines = log.lines \o <<Line(format_stop(StopEpoch(cmd'.arg)))>>]_vars

\* The lines do_rotate moves to the rotated log: those of the log, and the
\* STOP at now that closes an open START.
RotatedLines == log.lines \o (IF LastIsStart THEN <<Line(format_stop(now))>> ELSE <<>>)

\* The rotated logs after the step are those before it, with the lines of
\* the log at the end of one of them.
LogArchived ==
    \E d \in DOMAIN arch' :
        /\ DOMAIN arch' = DOMAIN arch \cup {d}
        /\ \A e \in DOMAIN arch : e # d => arch'[e] = arch[e]
        /\ arch'[d] = (IF d \in DOMAIN arch THEN arch[d] ELSE <<>>) \o RotatedLines

\* C27, as first stated: ts start appends exactly one START|now|<activity>
\* line to the log and every line that was in the log is still there.
C27_StartKeepsLog ==
    [][StepOf("start")
       => /\ ret'.val = "Ok"
          /\ log'.lines = log.lines \o <<Line(format_start(now, activity_of(cmd'.arg)))>>]_vars

\* C27: ts start writes exactly one START|now|<activity> line, the activity
\* being misc/unspecified when none is given, and changes no line: when the
\* last entry is not older than the current week the line is appended to
\* the log and the rotated logs are unchanged; when it is older, the lines
\* of the log are moved unchanged and in order to a rotated log and the new
\* log holds the START line alone; when that rotation fails the command
\* returns its error and the log and the rotated logs are as they were.
C27_StartAppends ==
    [][StepOf("start")
       => \/ /\ ~Stale /\ ret'.val = "Ok" /\ ret'.nrot = 0
             /\ log'.lines = log.lines \o <<Line(format_start(now, activity_of(cmd'.arg)))>>
             /\ arch' = arch
          \/ /\ Stale /\ ret'.val = "Ok" /\ ret'.nrot = 1
             /\ log'.lines = <<Line(format_start(now, activity_of(cmd'.arg)))>>
             /\ LogArchived
          \/ /\ Stale /\ ret'.val = ERR_NO_VALID
             /\ UNCHANGED <<log, arch>>]_vars

\* ts start without an activity appended its line to a log of two lines.
C27_Witness ==
    /\ cmd.name = "start" /\ cmd.arg = None
    /\ ret = [val |-> "Ok", nrot |-> 0]
    /\ Len(log.lines) = 3
    /\ log.lines[3] = Line(format_start(now, DEFAULT_ACTIVITY))

\* The last entry of the log carries today's local date.
LastIsToday ==
    /\ last_line_epoch(log) # None
    /\ format_ymd(last_line_epoch(log).val, tz) = format_ymd(now, tz)

\* after is before with text inserted just before its last element.
InsertedBeforeLast(before, after, text) ==
    /\ before # <<>>
    /\ after = SubSeq(before, 1, Len(before) - 1) \o <<text, before[Len(before)]>>

\* What C28 says of the entries before and after ts started recorded the
\* START line text at epoch.
StartedPlaced(before, after, epoch, text) ==
    IF LastIsStart /\ LastIsToday THEN LastReplaced(before, after, text)
    ELSE IF LastIsStop /\ LastIsToday /\ epoch < last_line_epoch(log).val
    THEN InsertedBeforeLast(before, after, text)
    ELSE after = before \o <<text>>

\* C28: ts started with a time that parses replaces a last START recorded
\* today by the new START, inserts the new START just before a last STOP
\* recorded today when the new start is earlier than that STOP, and in every
\* other case appends the new START and changes no entry of the log.
C28_StartedPlaces ==
    [][(StepOf("started") /\ cmd'.arg # None
        /\ parse_start_time(cmd'.arg.val.time, now, tz) # None)
       => /\ ret'.val = "Ok"
          /\ StartedPlaced(Nonblank(log.lines), Nonblank(log'.lines),
                           parse_start_time(cmd'.arg.val.time, now, tz).val,
                           format_start(parse_start_time(cmd'.arg.val.time, now, tz).val,
                                        activity_of(cmd'.arg.val.activity)))]_vars

ValidEpochs(ls) == {ls[i].entry.val.epoch : i \in {j \in 1..Len(ls) : ls[j].entry # None}}

\* The greatest element of the non-empty set S of integers.
Greatest(S) == CHOOSE m \in S : \A x \in S : x <= m

\* C30: ts rotate on an existing log fails with the 'no valid entries'
\* error, the log staying in place, exactly when the log holds no valid
\* entry; otherwise, whatever the epochs are, the log is moved to the rotated
\* log named after the greatest epoch of its valid entries.
C30_RotateNaming ==
    [][(StepOf("rotate") /\ log.exists)
       => IF ValidEpochs(RotatedLines) = {}
          THEN ret'.val = ERR_NO_VALID /\ UNCHANGED <<log, arch>>
          ELSE /\ ret'.val = "Ok"
               /\ ~log'.exists
               /\ DOMAIN arch' =
                    DOMAIN arch \cup {format_yymmdd(Greatest(ValidEpochs(RotatedLines)), tz)}]_vars

\* The epochs of the valid entries of the lines ls, in file order.
EpochsInOrder(ls) ==
    LET valid == SelectSeq(ls, LAMBDA l : l.entry # None)
    IN  [i \in 1..Len(valid) |-> valid[i].entry.val.epoch]

\* The sequence of integers es never decreases.
NonDecreasing(es) == \A i \in 1..Len(es) : \A j \in i..Len(es) : es[i] <= es[j]

\* C34: after any sequence of start, stop, started, timeoff, rotate and
\* appends of the daemon on a log that began absent, the epochs of the
\* entries of the active log never decrease in file order.
C34_MonotoneEpochs == log.exists => NonDecreasing(EpochsInOrder(log.lines))

\* The triples process_log_for_report returns to cmd_list for the argument
\* list_arg at the instant n: the exact values behind what is printed.
ExactReports(w, list_arg, n) ==
    LET content == resolve_list_input(list_arg, w).lines
        lines == parsed_lines(content, Len(content))
    IN  process_log_for_report(lines,
            IF (list_arg = None \/ list_arg.val = LOG_ARG) /\ find_last_start(lines) # None
            THEN Some(n) ELSE None)

\* The hours q, a fraction that is not negative, truncated to two decimal
\* places, in hundredths of an hour.
Truncated(q) == (100 * q.num) \div q.den

\* The printed report shows the exact triple res with every hour value
\* truncated, and as Total the sum of the truncated values of the days.
ShowsTruncated(printed, res) ==
    /\ DOMAIN printed.rows = DOMAIN res.by_act
    /\ \A i \in DOMAIN res.by_act :
          /\ printed.rows[i].activity = res.by_act[i].activity
          /\ printed.rows[i].hours = Truncated(res.by_act[i].hr)
    /\ \A d \in 0..6 : printed.days[d] = Truncated(res.dow_hr[d])
    /\ printed.total = sum_values([d \in 0..6 |-> Truncated(res.dow_hr[d])], 0..6)

\* C36: every hour value that ts list prints (the hours of each activity,
\* the hours of each weekday and Total) is the exact value truncated, not
\* rounded, to two decimal places, and Total is the sum of the truncated
\* values of the seven days.
C36_TruncatedHours ==
    [][(StepOf("list") /\ out'.status = "report")
        => \E res \in ExactReports(World, cmd'.arg, now) : ShowsTruncated(out', res)]_vars

\* C37: ts interval without an argument prints the interval in force and
\* changes nothing: the interval file, the PID file and the set of running
\* reminder daemons are as before; only ts interval with an argument writes
\* the interval file or stops or starts a daemon.
C37_ShowOnly ==
    [][(StepOf("interval") /\ cmd'.arg = None)
        => /\ out' = Some(interval_display(get_reminder_interval_secs(ifile)))
           /\ UNCHANGED <<ifile, pidfile>>
           /\ {p \in DOMAIN procs' : procs'[p] \in Alive} = {p \in DOMAIN procs : procs[p] \in Alive}]_vars

\* The number of lines of ls that are STOP lines.
RECURSIVE StopLines(_)
StopLines(ls) ==
    IF ls = <<>> THEN 0
    ELSE (IF starts_with(Head(ls).text, STOP_PREFIX) THEN 1 ELSE 0) + StopLines(Tail(ls))

\* The number of STOP lines in the rotated logs a.
RECURSIVE ArchStopLines(_, _)
ArchStopLines(a, names) ==
    IF names = {} THEN 0
    ELSE LET name == CHOOSE x \in names : TRUE
         IN  StopLines(a[name]) + ArchStopLines(a, names \ {name})

\* The STOP lines of the log f and the rotated logs a together.
AllStopLines(f, a) == (IF f.exists THEN StopLines(f.lines) ELSE 0) + ArchStopLines(a, DOMAIN a)

\* The first non-blank line of the log f is a STOP: no START is before it.
BeginsWithStop(f) ==
    /\ f.exists /\ Nonblank(f.lines) # <<>>
    /\ starts_with(Head(Nonblank(f.lines)), STOP_PREFIX)

\* C39: one run of ts stop adds at most one STOP line to the log and the
\* rotated logs taken together, and a log that did not begin with a STOP
\* does not begin with one afterwards; also when the command first rotates a
\* log of an earlier week whose last entry is an open START.
C39_SingleStop ==
    [][StepOf("stop")
        => /\ AllStopLines(log', arch') <= AllStopLines(log, arch) + 1
           /\ BeginsWithStop(log') => BeginsWithStop(log)]_vars

(***************************************************************************)
(* Properties of the reminder daemon                                       *)
(***************************************************************************)

\* The processes that are running.
Running(ps) == {p \in DOMAIN ps : ps[p] \in Alive}

\* The PID file names a process that is running.
NamesLive == pidfile # None /\ is_pid_running(World, pidfile.val)

\* C11: no step spawns a process while the PID file holds the pid of a
\* running process; a process is spawned only by start or started, and only
\* when the PID file is absent or names a process that has ended.
C11_NoSecondSpawn ==
    /\ [][NamesLive => DOMAIN procs' = DOMAIN procs]_vars
    /\ [][DOMAIN procs' # DOMAIN procs
            => /\ cmd'.name \in {"start", "started"}
               /\ Cardinality(DOMAIN procs') = Cardinality(DOMAIN procs) + 1
               /\ (pidfile = None \/ ~is_pid_running(World, pidfile.val))]_vars

\* ts start ran while the PID file named the running daemon 1: there is still
\* no second process.
C11_Witness ==
    /\ cmd.name = "start" /\ ret.val = "Ok"
    /\ pidfile = Some(1) /\ procs[1] \in Alive /\ DOMAIN procs = {1}

\* C12: at most one reminder daemon process is running at any time.
C12_SingleInstance == Cardinality(Running(procs)) <= 1

\* C13: a step of the process that the PID file names signals no process;
\* the daemon's Timeout step then leaves the PID file removed and the daemon
\* exited through its own break, not through a signal.
C13_SelfSignalGuard ==
    /\ [][(nsteps' = nsteps + 1 /\ cmd'.name # "signal" /\ pidfile = Some(cmd'.self))
            => \A q \in DOMAIN procs : procs'[q] = "killed" => procs[q] = "killed"]_vars
    /\ [][(StepOf("daemon_timeout") /\ pidfile = Some(cmd'.self))
            => (pidfile' = None /\ procs'[cmd'.self] = "exited")]_vars

\* The only process there is timed out and cmd_stop appended the STOP to an
\* open START, so that kill_reminder_daemon_if_running ran and found the
\* caller's own pid in the PID file.
C13_Witness ==
    /\ cmd.name = "daemon_timeout" /\ ret.val = "Ok"
    /\ DOMAIN procs = {cmd.self} /\ procs[cmd.self] = "exited" /\ pidfile = None
    /\ Len(log.lines) = 2
    /\ starts_with(log.lines[1].text, START_PREFIX)
    /\ log.lines[2].text = format_stop(now)

\* C14: once a daemon process has ended, on whatever exit path, no PID file
\* naming it remains.
C14_PidFileDeleted ==
    \A p \in DOMAIN procs : procs[p] \notin Alive => pidfile # Some(p)

\* C15: without a PID file no daemon is running, a PID file names a running
\* daemon, and a daemon in its sleep/prompt loop is the one the PID file
\* names.
C15_PidFileMeaning ==
    /\ pidfile = None => Running(procs) = {}
    /\ pidfile # None => pidfile.val \in Running(procs)
    /\ \A p \in DOMAIN procs : procs[p] \in {"sleeping", "prompting"} => pidfile = Some(p)

\* C16: on DontBugMe the daemon exits and neither the log nor a rotated log
\* changes.
C16_DontBugMe ==
    [][StepOf("daemon_dont_bug_me")
        => (log' = log /\ arch' = arch /\ procs'[cmd'.self] = "exited")]_vars

\* The daemon exited on DontBugMe and the session it was reminding about is
\* still open.
C16_Witness ==
    /\ cmd.name = "daemon_dont_bug_me" /\ procs[cmd.self] = "exited"
    /\ LastIsStart

\* C17: on Timeout the daemon ends its loop; a STOP at now is appended to the
\* log when its last entry is a START, and nothing is written when its last
\* entry is a STOP.
C17_TimeoutStops ==
    [][StepOf("daemon_timeout")
        => /\ procs'[cmd'.self] \notin Alive
           /\ LastIsStart => (log' = append_line(log, format_stop(now)) /\ arch' = arch)
           /\ (log.exists /\ last_starts_with(log.lines, STOP_PREFIX))
                 => (log' = log /\ arch' = arch)]_vars

C19_ShowAgain ==
    [][StepOf("daemon_show_again")
        => (procs'[cmd'.self] = "prompting" /\ log' = log)]_vars
====
